---- MODULE Spec2Model ----
(***************************************************************************)
(* A state-machine model of the temporal-network routines of tacoma:       *)
(*   - the SIRS epidemic process (src/_tacoma/SIRS.cpp),                   *)
(*   - the component canonicalizer and the social-trajectory extractors    *)
(*     (src/unnamed/part_000),                                             *)
(*   - the edge_changes <-> edge_lists codec (declared in part_000).       *)
(* Times and rates are integers; a rational is a pair <<num, den>>.        *)
(***************************************************************************)
EXTENDS Integers, Sequences, FiniteSets, TLC

(***************************************************************************)
(* Bounds of the model.                                                    *)
(***************************************************************************)
\* SIRS: largest number of observable records (calls that append one)
MaxRecords == 4
\* SIRS: network updates are made while fewer than this many records exist
MaxNetworkRecords == 2
\* SIRS: largest number of edges changed by one network update
MaxDiff == 2

\* canonicalizer: largest number of get_group_integer calls on one registry
MaxCalls == 4

\* streams: largest number of events of an edge_changes stream
MaxEvents == 2
\* streams: latest event time (t0 = 0)
MaxTime == 3

\* the nodes 0..N-1 of every graph
Nodes == {0, 1, 2}
NumNodes == Cardinality(Nodes)

\* all undirected edges as sorted pairs (i < j)
AllEdges == {e \in Nodes \X Nodes : e[1] < e[2]}

\* all symmetric, loop-free adjacency maps: vector < set < size_t > >
Graphs ==
    {g \in [Nodes -> SUBSET Nodes] :
        \A i \in Nodes : i \notin g[i] /\ \A j \in g[i] : i \in g[j]}

\* the undirected edge set of an adjacency map, as sorted pairs
EdgesOf(g) == {e \in AllEdges : e[2] \in g[e[1]]}

\* the adjacency map of a set of pairs (either orientation)
GraphOf(es) ==
    [i \in Nodes |-> {j \in Nodes : <<i, j>> \in es \/ <<j, i>> \in es}]

RECURSIVE SortedSeq(_)
\* the elements of a std::set < size_t > in iteration (ascending) order
SortedSeq(S) ==
    IF S = {} THEN <<>>
    ELSE LET m == CHOOSE x \in S : \A y \in S : x <= y
         IN  <<m>> \o SortedSeq(S \ {m})

RECURSIVE SumSeq(_)
\* accumulate(begin, end, 0.0)
SumSeq(s) == IF s = <<>> THEN 0 ELSE Head(s) + SumSeq(Tail(s))

\* the set of elements of a sequence
Range(s) == {s[k] : k \in 1..Len(s)}

\* vector::erase(begin() + (idx - 1))
EraseAt(s, idx) == [k \in 1..(Len(s) - 1) |-> IF k < idx THEN s[k] ELSE s[k + 1]]

VARIABLES
    \* ---- SIRS object (SIRS.cpp) ----
    G,                \* the graph *G the object points to
    node_status,      \* vector < EPI > : "S", "I", "R"
    infected,         \* vector < size_t >
    recovered,        \* vector < size_t >
    SI_edges,         \* vector < pair < size_t, size_t > > (infected, susceptible)
    mean_degree,      \* <<number_of_edges_times_two, N>>
    infection_rate, recovery_rate, becoming_susceptible_rate,
    rates,            \* member vector rates
    rates_out,        \* out-parameter _rates
    Lambda_out,       \* out-parameter _Lambda
    R0, SI, I, R, time,   \* observable sequences
    thrown,           \* "none" or the exception that ended the run
    last_call,        \* the member function that made the last step
    \* ---- group registry (part_000, get_group_integer) ----
    hash_to_int,      \* map < size_t, size_t > : hash -> label
    this_hash,        \* out-parameter this_hash of the last call
    group_int,        \* value returned by the last call
    reg_calls,        \* history: <<component, label>> of every call, in order
    \* ---- a trajectory routine's run (part_000) ----
    ec,               \* the edge_changes argument (read through references)
    node,             \* the focal node
    pc,               \* where the running routine is: "idle", "start", "loop",
                      \* "done" or how it ended; "ask", "fire", "ended" for
                      \* the event loop that drives a SIRS object
    G_traj,           \* the local graph G the stream is replayed on
    it,               \* it_time, it_edges_in, it_edges_out: 1-based position
    last_time_active,
    old_component,
    social_trajectory, \* vector < social_trajectory_entry >
    \* ---- binned mode (part_000 285-448) ----
    dt,               \* the bin width, a fraction [num, den]
    N_time_steps,
    trajectory,       \* vector < set < size_t > >, one set per bin
    current_trajectory_bin, \* the iterator, as an offset from begin()
    old_bin_number,
    current_group_integer,
    \* ---- the codec (conversion.h) ----
    el,               \* the edge_lists record convert_edge_changes returned
    ec_back,          \* the edge_changes record convert_edge_lists returned
    \* ---- a Flockwork-P run (FW_P_varying_alpha_beta.cpp) ----
    variant,          \* which of the four routines runs
    E,                \* the initial edge list
    reconnection_rate,    \* per segment <<breakpoint, alpha>>, alpha a number
                          \* or, in the per-node routines, one number per node
    disconnection_rate,   \* per segment beta, likewise
    neighbor_affinity,    \* per node the partners of positive weight
    t_run_total,
    fw_tmax,          \* the routine's argument tmax, the horizon of the schedule
    fw_G,             \* the routine's graph G
    fw_t,             \* the routine's clock t
    fw_time, fw_edges_in, fw_edges_out,   \* time, edges_in, edges_out
    total_rate, single_rates,
    last_event,
    draw,             \* history: what the last pass of the loop drew and did
    result            \* the edge_changes record returned

sirsVars ==
    <<G, node_status, infected, recovered, SI_edges, mean_degree,
      infection_rate, recovery_rate, becoming_susceptible_rate,
      rates, rates_out, Lambda_out, R0, SI, I, R, time, thrown, last_call>>

\* the epidemic state proper
epiVars == <<node_status, infected, recovered, SI_edges>>

regVars == <<hash_to_int, this_hash, group_int, reg_calls>>

streamVars == <<ec, node>>

runVars == <<pc, G_traj, it>>

intervalVars == <<last_time_active, old_component, social_trajectory>>

binnedVars == <<dt, N_time_steps, trajectory, current_trajectory_bin,
                old_bin_number, current_group_integer>>

codecVars == <<el, ec_back>>

flockArgs == <<variant, E, reconnection_rate, disconnection_rate, neighbor_affinity,
               t_run_total, fw_tmax>>

flockVars == <<flockArgs, fw_G, fw_t, fw_time, fw_edges_in, fw_edges_out,
               total_rate, single_rates, last_event, draw, result>>

vars == <<sirsVars, regVars, streamVars, runVars, intervalVars, binnedVars,
          codecVars, flockVars>>

(***************************************************************************)
(* SIRS                                                                    *)
(***************************************************************************)
\* the (infection, recovery, waning) rates a run is constructed with
RateTriples == {<<2, 3, 5>>}

\* number_of_edges_times_two / (double) N
MeanDegree(g) == <<SumSeq([k \in 1..NumNodes |-> Cardinality(g[k - 1])]), NumNodes>>

\* the pairs (inf, neighbour) for the susceptible neighbours of inf, in set order
SusceptibleNeighbours(inf, g, status) ==
    LET nb == SelectSeq(SortedSeq(g[inf]), LAMBDA v : status[v] = "S")
    IN  [k \in 1..Len(nb) |-> <<inf, nb[k]>>]

RECURSIVE ScanInfected(_, _, _)
\* the from-scratch scan of update_network(G, t): for each infected, each
\* susceptible neighbour
ScanInfected(inf_seq, g, status) ==
    IF inf_seq = <<>> THEN <<>>
    ELSE SusceptibleNeighbours(Head(inf_seq), g, status)
         \o ScanInfected(Tail(inf_seq), g, status)

\* update_observables(t) reading the sizes from before the step
UpdateObservablesBefore(t) ==
    /\ R0' = Append(R0, <<infection_rate * mean_degree'[1],
                          recovery_rate * mean_degree'[2]>>)
    /\ SI' = Append(SI, Len(SI_edges))
    /\ I' = Append(I, Len(infected))
    /\ R' = Append(R, Len(recovered))
    /\ time' = Append(time, t)

\* update_observables(t), reading the state the call leaves behind
UpdateObservables(t) ==
    /\ R0' = Append(R0, <<infection_rate * mean_degree'[1],
                          recovery_rate * mean_degree'[2]>>)
    /\ SI' = Append(SI, Len(SI_edges'))
    /\ I' = Append(I, Len(infected'))
    /\ R' = Append(R, Len(recovered'))
    /\ time' = Append(time, t)

\* the time the next call is made at
NextTime == IF time = <<>> THEN 0 ELSE time[Len(time)] + 1

\* update_network(_G, t) that also empties the recovered collection
UpdateNetworkFullForgetsRecovered(newG) ==
    /\ thrown = "none"
    /\ Len(time) < MaxNetworkRecords
    /\ G' = newG
    /\ mean_degree' = MeanDegree(newG)
    /\ SI_edges' = ScanInfected(infected, newG, node_status)
    /\ recovered' = <<>>
    /\ UNCHANGED <<node_status, infected, infection_rate, recovery_rate,
                   becoming_susceptible_rate, rates, rates_out, Lambda_out, thrown>>
    /\ UpdateObservables(NextTime)
    /\ last_call' = "update_network"

\* update_network(_G, t): rescan
UpdateNetworkFull(newG) ==
    /\ thrown = "none"
    /\ Len(time) < MaxNetworkRecords
    /\ G' = newG
    /\ mean_degree' = MeanDegree(newG)
    /\ SI_edges' = ScanInfected(infected, newG, node_status)
    /\ UNCHANGED <<node_status, infected, recovered, infection_rate, recovery_rate,
                   becoming_susceptible_rate, rates, rates_out, Lambda_out, thrown>>
    /\ UpdateObservables(NextTime)
    /\ last_call' = "update_network"

\* the predicate of the remove_if over SI_edges: the pair, put in (smaller,
\* larger) order, is looked up in the set built from edges_out as given
IsOutEdge(edge, set_of_out_edges) ==
    LET u == IF edge[2] < edge[1] THEN edge[2] ELSE edge[1]
        v == IF edge[2] < edge[1] THEN edge[1] ELSE edge[2]
    IN  <<u, v>> \in set_of_out_edges

RECURSIVE PushEdgesIn(_, _)
\* the loop over edges_in: the pairs pushed to SI_edges, in order
PushEdgesIn(edges_in, status) ==
    IF edges_in = <<>> THEN <<>>
    ELSE LET u == Head(edges_in)[1]
             v == Head(edges_in)[2]
             pushed ==
                 IF status[u] = "S" /\ status[v] = "I" THEN << <<v, u>> >>
                 ELSE IF status[v] = "S" /\ status[u] = "I" THEN << <<u, v>> >>
                 ELSE <<>>
         IN  pushed \o PushEdgesIn(Tail(edges_in), status)

\* update_network(_G, edges_in, edges_out, t): _G is the graph with the change
\* already applied by the caller
UpdateNetworkDiffCall(newG, edges_in, edges_out) ==
    /\ thrown = "none"
    /\ G' = newG
    /\ mean_degree' = MeanDegree(newG)
    /\ SI_edges' =
           SelectSeq(SI_edges, LAMBDA e : ~IsOutEdge(e, Range(edges_out)))
           \o PushEdgesIn(edges_in, node_status)
    /\ UNCHANGED <<node_status, infected, recovered, infection_rate, recovery_rate,
                   becoming_susceptible_rate, rates, rates_out, Lambda_out, thrown>>
    /\ UpdateObservables(NextTime)
    /\ last_call' = "update_network_diff"

\* the same call, made while the records are few
UpdateNetworkDiff(newG, edges_in, edges_out) ==
    /\ Len(time) < MaxNetworkRecords
    /\ UpdateNetworkDiffCall(newG, edges_in, edges_out)

\* get_rates_and_Lambda with the recovery and waning rates pushed in the other order
GetRatesAndLambdaSwapped ==
    /\ thrown = "none"
    /\ rates' = <<infection_rate * Len(SI_edges),
                  becoming_susceptible_rate * Len(recovered),
                  recovery_rate * Len(infected)>>
    /\ rates_out' = rates'
    /\ Lambda_out' = SumSeq(rates')
    /\ last_call' = "get_rates_and_Lambda"
    /\ UNCHANGED <<G, node_status, infected, recovered, SI_edges, mean_degree,
                   infection_rate, recovery_rate, becoming_susceptible_rate,
                   R0, SI, I, R, time, thrown>>

\* get_rates_and_Lambda pushing the sizes without the rate factors
GetRatesAndLambdaUnscaled ==
    /\ thrown = "none"
    /\ rates' = <<Len(SI_edges), Len(infected), Len(recovered)>>
    /\ rates_out' = rates'
    /\ Lambda_out' = SumSeq(rates')
    /\ last_call' = "get_rates_and_Lambda"
    /\ UNCHANGED <<G, node_status, infected, recovered, SI_edges, mean_degree,
                   infection_rate, recovery_rate, becoming_susceptible_rate,
                   R0, SI, I, R, time, thrown>>

\* get_rates_and_Lambda(_rates, _Lambda)
GetRatesAndLambda ==
    /\ thrown = "none"
    /\ rates' = <<infection_rate * Len(SI_edges),
                  recovery_rate * Len(infected),
                  becoming_susceptible_rate * Len(recovered)>>
    /\ rates_out' = rates'
    /\ Lambda_out' = SumSeq(rates')
    /\ last_call' = "get_rates_and_Lambda"
    /\ UNCHANGED <<G, node_status, infected, recovered, SI_edges, mean_degree,
                   infection_rate, recovery_rate, becoming_susceptible_rate,
                   R0, SI, I, R, time, thrown>>

\* infection_event() without the remove_if over SI_edges
InfectionEventKeepsStale(idx) ==
    LET this_susceptible == SI_edges[idx][2]
        status1 == [node_status EXCEPT ![this_susceptible] = "I"]
    IN  /\ infected' = Append(infected, this_susceptible)
        /\ node_status' = status1
        /\ SI_edges' = SI_edges \o SusceptibleNeighbours(this_susceptible, G, status1)
        /\ UNCHANGED recovered

\* infection_event() with the drawn index (1-based) into SI_edges
InfectionEvent(idx) ==
    LET this_susceptible == SI_edges[idx][2]
        status1 == [node_status EXCEPT ![this_susceptible] = "I"]
        kept == SelectSeq(SI_edges, LAMBDA e : e[2] # this_susceptible)
    IN  /\ infected' = Append(infected, this_susceptible)
        /\ node_status' = status1
        /\ SI_edges' = kept \o SusceptibleNeighbours(this_susceptible, G, status1)
        /\ UNCHANGED recovered

\* recovery_event() that makes the node susceptible again
RecoveryEventBackToS(idx) ==
    LET this_infected == infected[idx]
        status1 == [node_status EXCEPT ![this_infected] = "S"]
    IN  /\ infected' = EraseAt(infected, idx)
        /\ UNCHANGED recovered
        /\ node_status' = status1
        /\ SI_edges' = SelectSeq(SI_edges, LAMBDA e : e[1] # this_infected)
                       \o [k \in 1..Len(SelectSeq(SortedSeq(G[this_infected]),
                                                  LAMBDA v : status1[v] = "I")) |->
                             <<SelectSeq(SortedSeq(G[this_infected]),
                                         LAMBDA v : status1[v] = "I")[k],
                               this_infected>>]

\* recovery_event() without the erase from infected
RecoveryEventKeepsInfected(idx) ==
    LET this_infected == infected[idx]
    IN  /\ infected' = infected
        /\ recovered' = Append(recovered, this_infected)
        /\ node_status' = [node_status EXCEPT ![this_infected] = "R"]
        /\ SI_edges' = SelectSeq(SI_edges, LAMBDA e : e[1] # this_infected)

\* recovery_event() with the drawn index (1-based) into infected
RecoveryEvent(idx) ==
    LET this_infected == infected[idx]
    IN  /\ infected' = EraseAt(infected, idx)
        /\ recovered' = Append(recovered, this_infected)
        /\ node_status' = [node_status EXCEPT ![this_infected] = "R"]
        /\ SI_edges' = SelectSeq(SI_edges, LAMBDA e : e[1] # this_infected)

\* the pairs (neighbour, sus) for the infected neighbours of sus, in set order
InfectedNeighbours(sus, g, status) ==
    LET nb == SelectSeq(SortedSeq(g[sus]), LAMBDA v : status[v] = "I")
    IN  [k \in 1..Len(nb) |-> <<nb[k], sus>>]

\* susceptible_event() with the drawn index (1-based) into recovered
SusceptibleEvent(idx) ==
    LET this_recovered == recovered[idx]
        status1 == [node_status EXCEPT ![this_recovered] = "S"]
    IN  /\ recovered' = EraseAt(recovered, idx)
        /\ node_status' = status1
        /\ SI_edges' = SI_edges \o InfectedNeighbours(this_recovered, G, status1)
        /\ UNCHANGED infected

\* make_event(event, t) for an event whose collection holds an element to draw
MakeEventCall(event) ==
    /\ thrown = "none"
    /\ \/ /\ event = 0
          /\ \E idx \in 1..Len(SI_edges) : InfectionEvent(idx)
          /\ last_call' = "infection_event"
       \/ /\ event = 1
          /\ \E idx \in 1..Len(infected) : RecoveryEvent(idx)
          /\ last_call' = "recovery_event"
       \/ /\ event = 2
          /\ \E idx \in 1..Len(recovered) : SusceptibleEvent(idx)
          /\ last_call' = "susceptible_event"
    /\ UNCHANGED <<G, mean_degree>>
    /\ UpdateObservables(NextTime)
    /\ UNCHANGED <<infection_rate, recovery_rate, becoming_susceptible_rate,
                   rates, rates_out, Lambda_out, thrown>>

\* the same call, made while the records are few
MakeEvent(event) ==
    /\ Len(time) < MaxRecords
    /\ MakeEventCall(event)

\* make_event(event, t) for an event whose collection is empty: size() - 1
\* wraps around, the drawn index is outside the vector, and the read through
\* begin() + index is outside it too. The read faults, or it yields a value
\* this_node the routine goes on with (a value that is no node faults at
\* node_status[this_node]); the erase from the empty vector is taken to leave
\* it empty
MakeEventOnEmpty(event) ==
    /\ thrown = "none"
    /\ Len(time) < MaxRecords
    /\ \/ event = 0 /\ SI_edges = <<>> /\ last_call' = "infection_event"
       \/ event = 1 /\ infected = <<>> /\ last_call' = "recovery_event"
       \/ event = 2 /\ recovered = <<>> /\ last_call' = "susceptible_event"
    /\ UNCHANGED <<G, mean_degree, infection_rate, recovery_rate,
                   becoming_susceptible_rate, rates, rates_out, Lambda_out>>
    /\ \/ /\ thrown' = "fault"
          /\ UNCHANGED <<node_status, infected, recovered, SI_edges,
                         R0, SI, I, R, time>>
       \/ /\ thrown' = "none"
          /\ \E this_node \in Nodes :
               LET status1 == [node_status EXCEPT ![this_node] =
                                  CASE event = 0 -> "I"
                                    [] event = 1 -> "R"
                                    [] OTHER -> "S"]
               IN  /\ node_status' = status1
                   /\ infected' = IF event = 0 THEN Append(infected, this_node)
                                  ELSE infected
                   /\ recovered' = IF event = 1 THEN Append(recovered, this_node)
                                   ELSE recovered
                   /\ SI_edges' =
                        CASE event = 0 ->
                               SelectSeq(SI_edges, LAMBDA e : e[2] # this_node)
                               \o SusceptibleNeighbours(this_node, G, status1)
                          [] event = 1 ->
                               SelectSeq(SI_edges, LAMBDA e : e[1] # this_node)
                          [] OTHER ->
                               SI_edges \o InfectedNeighbours(this_node, G, status1)
          /\ UpdateObservables(NextTime)

\* make_event(event, t) with event >= 3 recording before it throws
MakeEventRecordsThenThrows ==
    /\ thrown = "none"
    /\ Len(time) < MaxRecords
    /\ thrown' = "length_error"
    /\ last_call' = "make_event"
    /\ UNCHANGED <<G, node_status, infected, recovered, SI_edges, mean_degree,
                   infection_rate, recovery_rate, becoming_susceptible_rate,
                   rates, rates_out, Lambda_out>>
    /\ UpdateObservables(NextTime)

\* make_event(event, t) with event >= 3: throws before anything is touched
MakeEventThrows ==
    /\ thrown = "none"
    /\ thrown' = "length_error"
    /\ last_call' = "make_event"
    /\ UNCHANGED <<G, node_status, infected, recovered, SI_edges, mean_degree,
                   infection_rate, recovery_rate, becoming_susceptible_rate,
                   rates, rates_out, Lambda_out, R0, SI, I, R, time>>

RECURSIVE OrientedSeqs(_)
\* the lists holding each pair of a sorted sequence of sorted pairs, in that
\* order, in either endpoint order
OrientedSeqs(sorted) ==
    IF sorted = <<>> THEN {<<>>}
    ELSE LET e == Head(sorted)
         IN  {<<p>> \o rest : p \in {e, <<e[2], e[1]>>},
                               rest \in OrientedSeqs(Tail(sorted))}

\* a set of sorted pairs as a list in ascending order
EdgeList(es) ==
    LET keys == SortedSeq({e[1] * NumNodes + e[2] : e \in es})
    IN  [k \in 1..Len(keys) |-> <<keys[k] \div NumNodes, keys[k] % NumNodes>>]

\* the diffs a caller may hand over: edges_out present, edges_in absent, each
\* pair in either endpoint order
NetworkChange ==
    /\ thrown = "none"
    /\ Len(time) < MaxNetworkRecords
    /\ \E outs \in SUBSET EdgesOf(G), ins \in SUBSET (AllEdges \ EdgesOf(G)) :
        /\ 0 < Cardinality(outs) + Cardinality(ins)
        /\ Cardinality(outs) + Cardinality(ins) <= MaxDiff
        /\ \E edges_out \in OrientedSeqs(EdgeList(outs)),
              edges_in \in OrientedSeqs(EdgeList(ins)) :
               UpdateNetworkDiff(GraphOf((EdgesOf(G) \ outs) \cup ins),
                                 edges_in, edges_out)

\* the next snapshot a caller may hand over
NewSnapshot ==
    /\ thrown = "none"
    /\ Len(time) < MaxNetworkRecords
    /\ \E es \in SUBSET AllEdges :
        /\ Cardinality((es \ EdgesOf(G)) \cup (EdgesOf(G) \ es)) <= MaxDiff
        /\ UpdateNetworkFull(GraphOf(es))

(***************************************************************************)
(* Component canonicalizer                                                 *)
(***************************************************************************)
RECURSIVE Pow2(_)
Pow2(n) == IF n = 0 THEN 1 ELSE 2 * Pow2(n - 1)

\* vector < bool > this_group(N, false) with this_group[node] = true for the
\* members, indexed 1..N here
GroupIndicator(component) == [k \in 1..NumNodes |-> (k - 1) \in component]

\* hash < vector < bool > >: the value is a function of the indicator alone and
\* taken to be collision-free; the indicator read as a binary number
HashGroup(this_group) ==
    SumSeq([k \in 1..Len(this_group) |-> IF this_group[k] THEN Pow2(k - 1) ELSE 0])

\* get_group_integer that enters every hash anew, found or not
GetGroupIntegerAlwaysNew(component, h2i) ==
    LET N_hashes == Cardinality(DOMAIN h2i)
        hash == HashGroup(GroupIndicator(component))
    IN  [ret |-> N_hashes, hash |-> hash,
         map |-> [h \in DOMAIN h2i \cup {hash} |->
                     IF h = hash THEN N_hashes ELSE h2i[h]]]

\* get_group_integer that numbers new hashes from 1
GetGroupIntegerOneBased(component, h2i) ==
    LET N_hashes == Cardinality(DOMAIN h2i)
        hash == HashGroup(GroupIndicator(component))
    IN  IF hash \in DOMAIN h2i
        THEN [ret |-> h2i[hash], hash |-> hash, map |-> h2i]
        ELSE [ret |-> N_hashes + 1, hash |-> hash,
              map |-> [h \in DOMAIN h2i \cup {hash} |->
                          IF h = hash THEN N_hashes + 1 ELSE h2i[h]]]

\* get_group_integer(N, component, hash_to_int, this_hash): the value
\* returned, this_hash, and the registry the call leaves
GetGroupInteger(component, h2i) ==
    LET N_hashes == Cardinality(DOMAIN h2i)
        hash == HashGroup(GroupIndicator(component))
    IN  IF hash \in DOMAIN h2i
        THEN [ret |-> h2i[hash], hash |-> hash, map |-> h2i]
        ELSE [ret |-> N_hashes, hash |-> hash,
              map |-> [h \in DOMAIN h2i \cup {hash} |->
                          IF h = hash THEN N_hashes ELSE h2i[h]]]

\* one call of get_group_integer on the registry
CallGetGroupInteger(component) ==
    LET r == GetGroupInteger(component, hash_to_int)
    IN  /\ Len(reg_calls) < MaxCalls
        /\ hash_to_int' = r.map
        /\ this_hash' = r.hash
        /\ group_int' = r.ret
        /\ reg_calls' = Append(reg_calls, <<component, r.ret>>)

\* a fresh registry: map < size_t, size_t > hash_to_int
InitRegistry ==
    /\ hash_to_int = <<>>
    /\ this_hash = 0
    /\ group_int = 0
    /\ reg_calls = <<>>

\* the rates an event loop is run with: all zero, infection only, all positive
LoopRateTriples == {<<0, 0, 0>>, <<2, 0, 0>>, <<2, 3, 5>>}

\* the object after construction with one of the rate triples and the first
\* update_network(G, t0)
InitSIRSWith(triples) ==
    \E g \in Graphs, status \in [Nodes -> {"S", "I", "R"}], rt \in triples :
        /\ G = g
        /\ node_status = status
        /\ infected = SortedSeq({n \in Nodes : status[n] = "I"})
        /\ recovered = SortedSeq({n \in Nodes : status[n] = "R"})
        /\ SI_edges = ScanInfected(infected, g, status)
        /\ mean_degree = MeanDegree(g)
        /\ infection_rate = rt[1]
        /\ recovery_rate = rt[2]
        /\ becoming_susceptible_rate = rt[3]
        /\ rates = <<>>
        /\ rates_out = <<>>
        /\ Lambda_out = 0
        /\ R0 = << <<rt[1] * mean_degree[1], rt[2] * mean_degree[2]>> >>
        /\ SI = <<Len(SI_edges)>>
        /\ I = <<Len(infected)>>
        /\ R = <<Len(recovered)>>
        /\ time = <<0>>
        /\ thrown = "none"
        /\ last_call = "update_network"

InitSIRS == InitSIRSWith(RateTriples)

(***************************************************************************)
(* edge_changes streams                                                    *)
(***************************************************************************)
\* the symmetric difference of two edge sets
Toggle(es, d) == (es \ d) \cup (d \ es)

RECURSIVE DiffSeqs(_, _)
\* the sequences of at most k non-empty changes applicable from edge set es,
\* each as the set of edges it toggles
DiffSeqs(es, k) ==
    IF k = 0 THEN {<<>>}
    ELSE {<<>>} \cup
         UNION {{<<d>> \o rest : rest \in DiffSeqs(Toggle(es, d), k - 1)} :
                    d \in (SUBSET AllEdges) \ {{}}}

RECURSIVE IncSeqs(_, _, _)
\* the strictly increasing sequences of k times in lo..hi
IncSeqs(lo, hi, k) ==
    IF k = 0 THEN {<<>>}
    ELSE UNION {{<<a>> \o rest : rest \in IncSeqs(a + 1, hi, k - 1)} : a \in lo..hi}

RECURSIVE EdgeSetsAlong(_, _)
\* the edge sets a sequence of toggles leads through, the first being es
EdgeSetsAlong(es, ds) ==
    IF ds = <<>> THEN <<es>>
    ELSE <<es>> \o EdgeSetsAlong(Toggle(es, Head(ds)), Tail(ds))

\* the edge_changes record of an initial edge set, toggles and times: every
\* edges_in absent before, every edges_out present before, pairs sorted
StreamOf(es0, ds, ts, tm) ==
    LET along == EdgeSetsAlong(es0, ds)
    IN  [N |-> NumNodes, t0 |-> 0, tmax |-> tm,
         edges_initial |-> EdgeList(es0),
         t |-> ts,
         edges_in |-> [k \in 1..Len(ds) |-> EdgeList(ds[k] \ along[k])],
         edges_out |-> [k \in 1..Len(ds) |-> EdgeList(ds[k] \cap along[k])]]

(***************************************************************************)
(* Social trajectories, interval mode                                      *)
(***************************************************************************)
\* graph_from_edgelist(G, edges): G cleared, every pair inserted both ways
GraphFromEdgelist(edges) == GraphOf(Range(edges))

RECURSIVE Reach(_, _)
Reach(seen, g) ==
    LET more == seen \cup UNION {g[n] : n \in seen}
    IN  IF more = seen THEN seen ELSE Reach(more, g)

\* get_component_of_node(node, G): the nodes connected to node, node included
GetComponentOfNode(n, g) == Reach({n}, g)

\* a replay that inserts the pairs of edges_in and erases nothing
ApplyOutThenInKeepsAll(g, these_edges_out, these_edges_in) ==
    LET ins == Range(these_edges_in)
    IN  [i \in Nodes |->
           g[i] \cup {j \in Nodes : <<i, j>> \in ins \/ <<j, i>> \in ins}]

\* erase, then insert, the pairs of one event, each put in (smaller, larger)
\* order first (lines 511-529)
ApplyOutThenIn(g, these_edges_out, these_edges_in) ==
    LET outs == Range(these_edges_out)
        ins == Range(these_edges_in)
        g1 == [i \in Nodes |->
                 g[i] \ {j \in Nodes : <<i, j>> \in outs \/ <<j, i>> \in outs}]
    IN  [i \in Nodes |->
           g1[i] \cup {j \in Nodes : <<i, j>> \in ins \/ <<j, i>> \in ins}]

\* a routine that swaps every pair to first >= second
SwapToSortedDescending(edges) ==
    [k \in 1..Len(edges) |->
        IF edges[k][1] < edges[k][2] THEN <<edges[k][2], edges[k][1]>> ELSE edges[k]]

\* a list of pairs after the in-place swap to first <= second
SwapToSorted(edges) ==
    [k \in 1..Len(edges) |->
        IF edges[k][1] > edges[k][2] THEN <<edges[k][2], edges[k][1]>> ELSE edges[k]]

\* a routine that makes an entry only while there is none
PushIntervalNewOnlyFirst(st, r, component, pair) ==
    LET st1 == IF Len(st) = 0
               THEN Append(st, [size |-> Cardinality(component),
                                hash |-> r.hash, time_pairs |-> <<>>])
               ELSE st
    IN  [k \in 1..Len(st1) |->
           IF k = r.ret + 1
           THEN [st1[k] EXCEPT !.time_pairs = Append(@, pair)]
           ELSE st1[k]]

\* a routine that makes a new entry for every interval
PushIntervalToNewEntry(st, r, component, pair) ==
    Append(st, [size |-> Cardinality(component), hash |-> r.hash,
                time_pairs |-> <<pair>>])

\* lines 557-572: the entry of the group is made if its label is new, and the
\* interval is pushed to it; r is what get_group_integer returned
PushInterval(st, r, component, pair) ==
    LET st1 == IF r.ret = Len(st)
               THEN Append(st, [size |-> Cardinality(component),
                                hash |-> r.hash, time_pairs |-> <<>>])
               ELSE st
    IN  [st1 EXCEPT ![r.ret + 1].time_pairs = Append(@, pair)]

\* social_trajectory_from_edge_changes up to the loop (lines 457-500); an
\* empty time list makes time.back() read outside the vector, after which the
\* comparison may go either way or the read may fault
IntervalStart ==
    /\ pc = "start"
    /\ G_traj' = GraphFromEdgelist(ec.edges_initial)
    /\ pc' \in IF ec.t = <<>> THEN {"domain_error", "done", "fault"}
               ELSE IF ec.tmax < ec.t[Len(ec.t)] THEN {"domain_error"}
               ELSE {"loop"}
    /\ IF pc' \in {"loop", "done"}
       THEN /\ it' = 1
            /\ last_time_active' = ec.t0
            /\ old_component' = GetComponentOfNode(node, G_traj')
            /\ hash_to_int' = <<>>
            /\ social_trajectory' = <<>>
       ELSE UNCHANGED <<it, last_time_active, old_component, hash_to_int,
                        social_trajectory>>
    /\ UNCHANGED <<ec, node, this_hash, group_int, reg_calls>>

\* one pass through the loop body (lines 503-612); the loop ends when the
\* iterators reach the end, and the routine returns
IntervalLoop ==
    /\ pc = "loop"
    /\ it <= Len(ec.t) /\ it <= Len(ec.edges_in) /\ it <= Len(ec.edges_out)
    /\ LET t == ec.t[it]
           these_edges_out == SwapToSorted(ec.edges_out[it])
           these_edges_in == SwapToSorted(ec.edges_in[it])
           g == ApplyOutThenIn(G_traj, these_edges_out, these_edges_in)
           new_component == GetComponentOfNode(node, g)
           component_changed == old_component # new_component
           closes == Cardinality(old_component) > 1 /\ component_changed /\ t > ec.t0
           r1 == GetGroupInteger(old_component, hash_to_int)
           h1 == IF closes THEN r1.map ELSE hash_to_int
           st1 == IF closes
                  THEN PushInterval(social_trajectory, r1, old_component,
                                    <<last_time_active, t>>)
                  ELSE social_trajectory
           calls1 == IF closes THEN Append(reg_calls, <<old_component, r1.ret>>)
                     ELSE reg_calls
           lta1 == IF component_changed THEN t ELSE last_time_active
           last == (it + 1 > Len(ec.t)) /\ Cardinality(new_component) > 1
           r2 == GetGroupInteger(new_component, h1)
       IN  /\ ec' = [ec EXCEPT !.edges_out[it] = these_edges_out,
                               !.edges_in[it] = these_edges_in]
           /\ G_traj' = g
           /\ old_component' = new_component
           /\ it' = it + 1
           /\ IF last
              THEN /\ hash_to_int' = r2.map
                   /\ this_hash' = r2.hash
                   /\ group_int' = r2.ret
                   /\ reg_calls' = Append(calls1, <<new_component, r2.ret>>)
                   /\ social_trajectory' =
                          PushInterval(st1, r2, new_component, <<lta1, ec.tmax>>)
                   /\ last_time_active' = lta1
              ELSE /\ hash_to_int' = h1
                   /\ this_hash' = IF closes THEN r1.hash ELSE this_hash
                   /\ group_int' = IF closes THEN r1.ret ELSE group_int
                   /\ reg_calls' = calls1
                   /\ social_trajectory' = st1
                   /\ last_time_active' = lta1
           /\ pc' = IF it + 1 > Len(ec.t) \/ it + 1 > Len(ec.edges_in)
                       \/ it + 1 > Len(ec.edges_out)
                    THEN "done" ELSE "loop"
    /\ UNCHANGED node

(***************************************************************************)
(* Social trajectories, binned mode                                        *)
(***************************************************************************)
\* a replay that erases a pair from the set of its first endpoint only
ApplyInThenOutOneWay(g, these_edges_in, these_edges_out) ==
    LET ins == Range(these_edges_in)
        outs == Range(these_edges_out)
        g1 == [i \in Nodes |->
                 g[i] \cup {j \in Nodes : <<i, j>> \in ins \/ <<j, i>> \in ins}]
    IN  [i \in Nodes |-> g1[i] \ {j \in Nodes : <<i, j>> \in outs}]

\* insert, then erase, the pairs of one event as they are given (lines 401-415)
ApplyInThenOut(g, these_edges_in, these_edges_out) ==
    LET ins == Range(these_edges_in)
        outs == Range(these_edges_out)
        g1 == [i \in Nodes |->
                 g[i] \cup {j \in Nodes : <<i, j>> \in ins \/ <<j, i>> \in ins}]
    IN  [i \in Nodes |->
           g1[i] \ {j \in Nodes : <<i, j>> \in outs \/ <<j, i>> \in outs}]

\* the trajectory after an insert of label through the iterator at offset bin
\* (an offset outside the vector leaves the vector as it is)
InsertAt(traj, bin, label) ==
    [b \in 1..Len(traj) |-> IF b = bin + 1 THEN traj[b] \cup {label} ELSE traj[b]]

\* binned_social_trajectory_from_edge_changes up to the loop (lines 294-352):
\* the graph, the check of dt and N_time_steps, the first bin, the check of
\* tmax; an empty time list makes time.back() read outside the vector, and
\* with no bin at all the first insert writes outside the vector. pc tells the
\* two messages of domain_error apart: "domain_error" is the one about tmax
BinnedStart ==
    /\ pc = "start"
    /\ LET g == GraphFromEdgelist(ec.edges_initial)
           span == ec.tmax - ec.t0
           both_positive == dt.num > 0 /\ N_time_steps > 0
           both_zero == dt.num = 0 /\ N_time_steps = 0
           not_round == dt.num > 0 /\ N_time_steps = 0
                            /\ (span * dt.den) % dt.num # 0
           steps == IF dt.num > 0 /\ N_time_steps = 0 THEN (span * dt.den) \div dt.num
                    ELSE N_time_steps
           width == IF dt.num = 0 /\ N_time_steps > 0
                    THEN [num |-> span, den |-> N_time_steps] ELSE dt
           grouped == g[node] # {}
           component == GetComponentOfNode(node, g)
           r == GetGroupInteger(component, <<>>)
       IN  /\ G_traj' = g
           /\ IF both_positive \/ both_zero \/ not_round
              THEN /\ pc' = "domain_error_dt_N_time_steps"
                   /\ UNCHANGED <<regVars, binnedVars>>
              ELSE /\ N_time_steps' = steps
                   /\ dt' = width
                   /\ trajectory' = IF grouped
                                    THEN InsertAt([b \in 1..steps |-> {}], 0, r.ret)
                                    ELSE [b \in 1..steps |-> {}]
                   /\ current_trajectory_bin' = 0
                   /\ old_bin_number' = 0
                   /\ current_group_integer' = IF grouped THEN r.ret ELSE 1
                   /\ hash_to_int' = IF grouped THEN r.map ELSE <<>>
                   /\ this_hash' = IF grouped THEN r.hash ELSE this_hash
                   /\ group_int' = IF grouped THEN r.ret ELSE group_int
                   /\ reg_calls' = IF grouped
                                   THEN Append(reg_calls, <<component, r.ret>>)
                                   ELSE reg_calls
                   /\ \/ /\ ec.t # <<>>
                         /\ pc' = IF ec.tmax < ec.t[Len(ec.t)]
                                  THEN "domain_error" ELSE "loop"
                      \/ /\ ec.t = <<>>
                         /\ pc' \in {"domain_error", "done", "fault"}
                      \/ /\ grouped /\ steps = 0
                         /\ pc' = "fault"
    /\ it' = 1
    /\ UNCHANGED <<ec, node>>

\* one pass through the loop body (lines 359-445); an insert through an
\* iterator that has reached end() writes outside the vector, which faults or
\* leaves the vector as it is
BinnedLoop ==
    /\ pc = "loop"
    /\ it <= Len(ec.t)
    /\ LET this_time == ec.t[it]
           bin_number == ((this_time - ec.t0) * N_time_steps) \div (ec.tmax - ec.t0)
           bin_difference == bin_number - old_bin_number
           cursor == current_trajectory_bin + bin_difference
           \* line 381-385, the same in every pass of the for loop
           carries == /\ G_traj[node] # {}
                      /\ ec.t0 * dt.den + bin_number * dt.num > this_time * dt.den
                      /\ current_group_integer < Cardinality(DOMAIN hash_to_int)
           traj1 == [b \in 1..Len(trajectory) |->
                        IF carries /\ current_trajectory_bin + 1 < b /\ b <= cursor + 1
                        THEN trajectory[b] \cup {current_group_integer}
                        ELSE trajectory[b]]
           g == ApplyInThenOut(G_traj, ec.edges_in[it], ec.edges_out[it])
           grouped == g[node] # {}
           component == GetComponentOfNode(node, g)
           r == GetGroupInteger(component, hash_to_int)
           outside == cursor >= Len(trajectory)
                         /\ (grouped \/ (carries /\ bin_difference > 0))
           goes_on == IF it + 1 > Len(ec.t) THEN "done" ELSE "loop"
       IN  /\ old_bin_number' = bin_number
           /\ current_trajectory_bin' = cursor
           /\ G_traj' = g
           /\ trajectory' = IF grouped THEN InsertAt(traj1, cursor, r.ret) ELSE traj1
           /\ current_group_integer' = IF grouped THEN r.ret ELSE current_group_integer
           /\ hash_to_int' = IF grouped THEN r.map ELSE hash_to_int
           /\ this_hash' = IF grouped THEN r.hash ELSE this_hash
           /\ group_int' = IF grouped THEN r.ret ELSE group_int
           /\ reg_calls' = IF grouped THEN Append(reg_calls, <<component, r.ret>>)
                           ELSE reg_calls
           /\ it' = it + 1
           /\ pc' \in IF outside THEN {goes_on, "fault"} ELSE {goes_on}
    /\ UNCHANGED <<ec, node, dt, N_time_steps>>

(***************************************************************************)
(* The codec: edge_changes <-> edge_lists                                  *)
(***************************************************************************)
\* a stride-free variant of hash_edge
HashEdgeNoStride(p, N) == p[1] + p[2]

\* hash_edge(p, N)
HashEdge(p, N) == N * p[1] + p[2]

\* get_edge_integer_set(edges, N)
GetEdgeIntegerSet(edges, N) == {HashEdge(e, N) : e \in Range(edges)}

\* the pairs of a set of edge integers, in ascending order of the integers
EdgesOfIntegers(ints, N) ==
    LET keys == SortedSeq(ints)
    IN  [k \in 1..Len(keys) |-> <<keys[k] \div N, keys[k] % N>>]

\* the edge list of a graph: every pair (i, j), i < j, with j a neighbour of i
Flatten(g) == EdgesOfIntegers({HashEdge(e, NumNodes) : e \in EdgesOf(g)}, NumNodes)

RECURSIVE ReplayFrom(_, _, _)
\* the graphs from g on through the events k, k+1, ... of a stream
ReplayFrom(g, stream, k) ==
    IF k > Len(stream.t) THEN <<g>>
    ELSE <<g>> \o ReplayFrom(ApplyOutThenIn(g, stream.edges_out[k], stream.edges_in[k]),
                             stream, k + 1)

\* convert_edge_changes(list_of_edge_changes): tmax before the last event is
\* rejected first; then one edge list per graph of the replay, the first at t0
ConvertEdgeChanges ==
    /\ pc = "start"
    /\ IF ec.t # <<>> /\ ec.tmax < ec.t[Len(ec.t)]
       THEN /\ pc' = "domain_error"
            /\ UNCHANGED el
       ELSE LET graphs == ReplayFrom(GraphFromEdgelist(ec.edges_initial), ec, 1)
            IN  /\ el' = [N |-> ec.N, tmax |-> ec.tmax,
                          t |-> <<ec.t0>> \o ec.t,
                          edges |-> [k \in 1..Len(graphs) |-> Flatten(graphs[k])]]
                /\ pc' = "converted"
    /\ UNCHANGED <<ec, node, G_traj, it, ec_back>>

\* a convert_edge_lists that does not look at tmax
ConvertEdgeListsUnchecked ==
    /\ pc = "converted"
    /\ LET ints == [k \in 1..Len(el.edges) |-> GetEdgeIntegerSet(el.edges[k], el.N)]
       IN  /\ ec_back' =
                 [N |-> el.N, t0 |-> el.t[1], tmax |-> el.tmax,
                  edges_initial |-> el.edges[1],
                  t |-> Tail(el.t),
                  edges_in |-> [k \in 1..(Len(el.t) - 1) |->
                                  EdgesOfIntegers(ints[k + 1] \ ints[k], el.N)],
                  edges_out |-> [k \in 1..(Len(el.t) - 1) |->
                                  EdgesOfIntegers(ints[k] \ ints[k + 1], el.N)]]
           /\ pc' = "done"
    /\ UNCHANGED <<ec, node, G_traj, it, el>>

\* convert_edge_lists(list_of_edge_lists): tmax before the last time is
\* rejected first; then the first list is edges_initial at t0 = t[0], and
\* each later list gives the event of what it adds to and drops from the
\* list before it
ConvertEdgeLists ==
    /\ pc = "converted"
    /\ IF el.t # <<>> /\ el.tmax < el.t[Len(el.t)]
       THEN /\ pc' = "domain_error"
            /\ UNCHANGED ec_back
       ELSE LET ints == [k \in 1..Len(el.edges) |-> GetEdgeIntegerSet(el.edges[k], el.N)]
            IN  /\ ec_back' =
                      [N |-> el.N, t0 |-> el.t[1], tmax |-> el.tmax,
                       edges_initial |-> el.edges[1],
                       t |-> Tail(el.t),
                       edges_in |-> [k \in 1..(Len(el.t) - 1) |->
                                       EdgesOfIntegers(ints[k + 1] \ ints[k], el.N)],
                       edges_out |-> [k \in 1..(Len(el.t) - 1) |->
                                       EdgesOfIntegers(ints[k] \ ints[k + 1], el.N)]]
                /\ pc' = "done"
    /\ UNCHANGED <<ec, node, G_traj, it, el>>

\* an object nobody calls: the state the other routines' runs leave it in
IdleSIRS ==
    /\ G = [n \in Nodes |-> {}]
    /\ node_status = [n \in Nodes |-> "S"]
    /\ infected = <<>>
    /\ recovered = <<>>
    /\ SI_edges = <<>>
    /\ mean_degree = <<0, NumNodes>>
    /\ infection_rate = 0
    /\ recovery_rate = 0
    /\ becoming_susceptible_rate = 0
    /\ rates = <<>>
    /\ rates_out = <<>>
    /\ Lambda_out = 0
    /\ R0 = <<>> /\ SI = <<>> /\ I = <<>> /\ R = <<>> /\ time = <<>>
    /\ thrown = "none"
    /\ last_call = "none"

\* no trajectory routine running
IdleRun ==
    /\ ec = [N |-> NumNodes, t0 |-> 0, tmax |-> 0, edges_initial |-> <<>>,
             t |-> <<>>, edges_in |-> <<>>, edges_out |-> <<>>]
    /\ node = 0
    /\ pc = "idle"
    /\ G_traj = [n \in Nodes |-> {}]
    /\ it = 1
    /\ last_time_active = 0
    /\ old_component = {}
    /\ social_trajectory = <<>>

\* no binned run
IdleBinned ==
    /\ dt = [num |-> 0, den |-> 1]
    /\ N_time_steps = 0
    /\ trajectory = <<>>
    /\ current_trajectory_bin = 0
    /\ old_bin_number = 0
    /\ current_group_integer = 1

\* nothing converted
IdleCodec ==
    /\ el = [N |-> NumNodes, tmax |-> 0, t |-> <<>>, edges |-> <<>>]
    /\ ec_back = [N |-> NumNodes, t0 |-> 0, tmax |-> 0, edges_initial |-> <<>>,
                  t |-> <<>>, edges_in |-> <<>>, edges_out |-> <<>>]

\* the record an idle routine has returned nothing in
NoStream ==
    [N |-> NumNodes, t0 |-> 0, tmax |-> 0, edges_initial |-> <<>>,
     t |-> <<>>, edges_in |-> <<>>, edges_out |-> <<>>]

\* what a pass of the loop that drew nothing looks like
NoDraw == [tau |-> 0, channel |-> 0, node |-> 0, partner |-> 0, applied |-> FALSE]

\* no Flockwork-P run
IdleFlock ==
    /\ variant = "none"
    /\ E = <<>>
    /\ reconnection_rate = <<>>
    /\ disconnection_rate = <<>>
    /\ neighbor_affinity = <<>>
    /\ t_run_total = 0
    /\ fw_tmax = 0
    /\ fw_G = [n \in Nodes |-> {}]
    /\ fw_t = 0
    /\ fw_time = <<>>
    /\ fw_edges_in = <<>>
    /\ fw_edges_out = <<>>
    /\ total_rate = <<>>
    /\ single_rates = <<>>
    /\ last_event = -1
    /\ draw = NoDraw
    /\ result = NoStream

\* ---------------- Flockwork-P with varying rates ----------------
\* (FW_P_varying_alpha_beta.cpp; times and rates are whole numbers here)

MaxRunTime == 4

PerNode == variant \in {"for_each_node", "for_each_node_affinity"}

WithAffinity == variant \in {"global_affinity", "for_each_node_affinity"}

\* the rate table of the routines with one alpha and one beta per segment:
\* per segment the breakpoint, this_vec and alpha + beta
GlobalRateTable(N) ==
    [k \in 1..Len(reconnection_rate) |->
        LET alpha == reconnection_rate[k][2] * N
            beta == disconnection_rate[k] * N
        IN  [first |-> reconnection_rate[k][1],
             this_vec |-> <<alpha, beta>>,
             total |-> alpha + beta]]

\* the rate table of the routines with one alpha and one beta per node and
\* segment: this_vec holds the alphas, then the betas, as they were handed in
PerNodeRateTable ==
    [k \in 1..Len(reconnection_rate) |->
        LET Alpha == SumSeq(reconnection_rate[k][2])
            Beta == SumSeq(disconnection_rate[k])
        IN  [first |-> reconnection_rate[k][1],
             this_vec |-> reconnection_rate[k][2] \o disconnection_rate[k],
             total |-> Alpha + Beta]]

RateTable == IF PerNode THEN PerNodeRateTable ELSE GlobalRateTable(NumNodes)

\* the routine up to its loop: the graph of E, the rate tables, t at the first
\* breakpoint
FlockStart ==
    /\ pc = "start"
    /\ fw_G' = GraphFromEdgelist(E)
    /\ fw_edges_out' = <<>>
    /\ fw_edges_in' = <<>>
    /\ fw_time' = <<>>
    /\ single_rates' = [k \in 1..Len(RateTable) |->
                          <<RateTable[k].first, RateTable[k].this_vec>>]
    /\ total_rate' = [k \in 1..Len(RateTable) |->
                        <<RateTable[k].first, RateTable[k].total>>]
    /\ fw_t' = reconnection_rate[1][1]
    /\ last_event' = -1
    /\ pc' = "loop"
    /\ UNCHANGED <<flockArgs, draw, result>>

\* the segment of the schedule time x falls in
SegmentAt(x) ==
    CHOOSE k \in 1..Len(total_rate) :
        /\ total_rate[k][1] <= x
        /\ \A j \in 1..Len(total_rate) : total_rate[j][1] <= x => j <= k

\* the channels that can fire at time x: those of positive rate (channel c is
\* entry c - 1 of the rate vector, entry 0 being the caller's rates = [0.0])
ChannelsAt(x) ==
    {c \in 1..Len(single_rates[SegmentAt(x)][2]) :
        single_rates[SegmentAt(x)][2][c] > 0}

\* the last channel of the routine: 2, or 2 N
NumChannels == IF PerNode THEN 2 * NumNodes ELSE 2

\* get_gillespie_tau_and_event_with_varying_gamma_for_each_node: a waiting time
\* and a channel that has a positive rate when the waiting time is over; with
\* no such time before the end of the run, no further event before it
GillespieDraws ==
    LET events == UNION {{<<tau, c>> : c \in ChannelsAt(fw_t + tau)} :
                            tau \in 1..(t_run_total - fw_t)}
    IN  IF events # {} THEN events
        ELSE {<<t_run_total - fw_t, c>> : c \in 1..NumChannels}

\* a scheduler that may also hand back a channel out of range: 0, or one past
\* the last
AnyDraws ==
    GillespieDraws \cup
    {<<tau, c>> : tau \in 1..(t_run_total - fw_t), c \in {0, NumChannels + 1}}

\* the partners a reconnecting node can draw: any other node, or with
\* neighbor_affinity those it has a weight for
Partners(n) ==
    IF WithAffinity THEN neighbor_affinity[n + 1] \ {n} ELSE Nodes \ {n}

\* rewire_P_...(node, G, P, ...) with P = 1 and partner j drawn: the node loses
\* its neighbours and gets j as its one neighbour. graph: G afterwards, first:
\* the edges removed, second: the edges added
Reconnect(g, n, j) ==
    [graph |-> [i \in Nodes |-> IF i = n THEN {j}
                                ELSE IF i = j THEN g[i] \cup {n}
                                ELSE g[i] \ {n}],
     first |-> EdgeList({e \in EdgesOf(g) : n \in {e[1], e[2]} /\ j \notin {e[1], e[2]}}),
     second |-> IF j \in g[n] THEN <<>>
                ELSE EdgeList({<<IF n < j THEN n ELSE j, IF n < j THEN j ELSE n>>})]

\* rewire_P_...(node, G, P, ...) with P = 0: the node loses all its edges
Disconnect(g, n) ==
    [graph |-> [i \in Nodes |-> IF i = n THEN {} ELSE g[i] \ {n}],
     first |-> EdgeList({e \in EdgesOf(g) : n \in {e[1], e[2]}}),
     second |-> <<>>]

\* a loop that takes the event for one to apply up to and including t_run_total
BeforeEndInclusive(t1) == t1 <= t_run_total

\* if (t<t_run_total): the event falls inside the run
BeforeEnd(t1) == t1 < t_run_total

\* a loop that appends an entry for every event
RecordedAlways(curr_edge_change) == TRUE

\* a loop that appends an entry only when edges were removed and added
RecordedWhenBoth(curr_edge_change) ==
    Len(curr_edge_change.first) > 0 /\ Len(curr_edge_change.second) > 0

\* does the event get an entry in time, edges_out and edges_in
Recorded(curr_edge_change) ==
    Len(curr_edge_change.first) > 0 \/ Len(curr_edge_change.second) > 0

\* is the channel one the routine rewires for
ValidChannel(channel) ==
    IF PerNode THEN channel > 0 /\ channel < 2 * NumNodes + 1
    ELSE channel = 1 \/ channel = 2

\* the two values of P the other way round
IsReconnectionSwapped(channel) ==
    IF PerNode THEN (channel - 1) \div NumNodes # 0 ELSE channel # 1

\* P = 1.0 (TRUE) or P = 0.0 (FALSE) for a channel
IsReconnection(channel) ==
    IF PerNode THEN (channel - 1) \div NumNodes = 0 ELSE channel = 1

\* a decoding that is off by one node
SelectedNodesOffByOne(channel) ==
    IF PerNode THEN {channel % NumNodes} ELSE Nodes

\* the nodes the event of a channel can select
SelectedNodes(channel) ==
    IF PerNode THEN {(channel - 1) % NumNodes} ELSE Nodes

\* a loop that never looks at the time
LoopGoesOnForEver == TRUE

\* while (t < t_run_total)
LoopGoesOn == fw_t < t_run_total

\* one pass of the loop, the scheduler answering with one of draws
FlockPass(draws) ==
    /\ pc = "loop"
    /\ LoopGoesOn
    /\ \E d \in draws :
        LET tau == d[1]
            channel == d[2]
            t1 == fw_t + tau
        IN  /\ fw_t' = t1
            /\ last_event' = channel
            /\ IF BeforeEnd(t1)
               THEN IF ValidChannel(channel)
                    THEN \E n \in SelectedNodes(channel) :
                         \E j \in (IF IsReconnection(channel) THEN Partners(n) ELSE {n}) :
                            LET curr_edge_change ==
                                    IF IsReconnection(channel)
                                    THEN Reconnect(fw_G, n, j)
                                    ELSE Disconnect(fw_G, n)
                            IN  /\ fw_G' = curr_edge_change.graph
                                /\ IF Recorded(curr_edge_change)
                                   THEN /\ fw_time' = Append(fw_time, t1)
                                        /\ fw_edges_out' =
                                             Append(fw_edges_out, curr_edge_change.first)
                                        /\ fw_edges_in' =
                                             Append(fw_edges_in, curr_edge_change.second)
                                   ELSE UNCHANGED <<fw_time, fw_edges_out, fw_edges_in>>
                                /\ draw' = [tau |-> tau, channel |-> channel, node |-> n,
                                            partner |-> j, applied |-> TRUE]
                                /\ pc' = "loop"
                    ELSE /\ pc' = "length_error"
                         /\ draw' = [tau |-> tau, channel |-> channel, node |-> 0,
                                     partner |-> 0, applied |-> FALSE]
                         /\ UNCHANGED <<fw_G, fw_time, fw_edges_out, fw_edges_in>>
               ELSE /\ pc' = "loop"
                    /\ draw' = [tau |-> tau, channel |-> channel, node |-> 0,
                                partner |-> 0, applied |-> FALSE]
                    /\ UNCHANGED <<fw_G, fw_time, fw_edges_out, fw_edges_in>>
    /\ UNCHANGED <<flockArgs, total_rate, single_rates, result>>

\* one pass of while (t < t_run_total)
FlockLoop == FlockPass(GillespieDraws)

\* the same pass with a scheduler that may hand back any channel
FlockLoopAnyChannel == FlockPass(AnyDraws)

\* a routine that returns the horizon of the schedule as tmax
FlockReturnHorizon ==
    /\ pc = "loop"
    /\ ~LoopGoesOn
    /\ result' = [N |-> NumNodes, t0 |-> 0, tmax |-> fw_tmax,
                  edges_initial |-> E, t |-> fw_time,
                  edges_in |-> fw_edges_in, edges_out |-> fw_edges_out]
    /\ pc' = "done"
    /\ UNCHANGED <<flockArgs, fw_G, fw_t, fw_time, fw_edges_in, fw_edges_out,
                   total_rate, single_rates, last_event, draw>>

\* the loop is over: the edge_changes record is filled and returned
FlockReturn ==
    /\ pc = "loop"
    /\ ~LoopGoesOn
    /\ result' = [N |-> NumNodes, t0 |-> 0, tmax |-> t_run_total,
                  edges_initial |-> E, t |-> fw_time,
                  edges_in |-> fw_edges_in, edges_out |-> fw_edges_out]
    /\ pc' = "done"
    /\ UNCHANGED <<flockArgs, fw_G, fw_t, fw_time, fw_edges_in, fw_edges_out,
                   total_rate, single_rates, last_event, draw>>

notSirsVars == <<regVars, streamVars, runVars, intervalVars, binnedVars, codecVars, flockVars>>

Init == InitSIRS /\ InitRegistry /\ IdleRun /\ IdleBinned /\ IdleCodec
            /\ IdleFlock

EpidemicEvent == (\E event \in 0..2 : MakeEvent(event)) /\ UNCHANGED notSirsVars

RatesQuery == GetRatesAndLambda /\ UNCHANGED notSirsVars

DiffUpdate == NetworkChange /\ UNCHANGED notSirsVars

SnapshotUpdate == NewSnapshot /\ UNCHANGED notSirsVars

BadEvent == MakeEventThrows /\ UNCHANGED notSirsVars

\* epidemic events on a fixed graph
NextEpi ==
    \/ EpidemicEvent
    \/ RatesQuery

SpecEpi == Init /\ [][NextEpi]_vars

\* a diff of one edge handed over at any time of the run, the pair in either
\* endpoint order: an edge of the graph leaves, or an edge absent from it comes
OneEdgeChange ==
    /\ Len(time) < MaxRecords
    /\ \E e \in AllEdges, p \in {1, 2} :
         LET pair == IF p = 1 THEN e ELSE <<e[2], e[1]>>
         IN  IF e \in EdgesOf(G)
             THEN UpdateNetworkDiffCall(GraphOf(EdgesOf(G) \ {e}), <<>>, <<pair>>)
             ELSE UpdateNetworkDiffCall(GraphOf(EdgesOf(G) \cup {e}), <<pair>>, <<>>)

LateDiffUpdate == OneEdgeChange /\ UNCHANGED notSirsVars

NextDiffs ==
    \/ EpidemicEvent
    \/ LateDiffUpdate

\* epidemic events and diffs of one edge in any order
SpecDiffs == Init /\ [][NextDiffs]_vars

\* an event requested although its collection is empty
EmptyDraw == (\E event \in 0..2 : MakeEventOnEmpty(event)) /\ UNCHANGED notSirsVars

NextAnyEvent ==
    \/ EpidemicEvent
    \/ RatesQuery
    \/ EmptyDraw

\* the object driven by a caller that requests events whatever the rates are
SpecAnyEvent == Init /\ [][NextAnyEvent]_vars

\* the event loop asks the object for its rates; a total rate of zero means
\* no further event and the run ends
LoopAsk ==
    /\ pc = "ask"
    /\ GetRatesAndLambda
    /\ pc' = IF Lambda_out' = 0 THEN "ended" ELSE "fire"
    /\ UNCHANGED <<regVars, streamVars, G_traj, it, intervalVars, binnedVars,
                   codecVars, flockVars>>

\* the event loop draws a channel in proportion to the rates (a channel of
\* rate zero is never drawn) and has the object apply it
LoopFire ==
    /\ pc = "fire"
    /\ \E event \in 0..2 :
          /\ rates_out[event + 1] > 0
          /\ MakeEvent(event)
    /\ pc' = "ask"
    /\ UNCHANGED <<regVars, streamVars, G_traj, it, intervalVars, binnedVars,
                   codecVars, flockVars>>

\* a SIRS object in the event loop
InitLoop ==
    /\ InitSIRSWith(LoopRateTriples)
    /\ InitRegistry
    /\ ec = [N |-> NumNodes, t0 |-> 0, tmax |-> 0, edges_initial |-> <<>>,
             t |-> <<>>, edges_in |-> <<>>, edges_out |-> <<>>]
    /\ node = 0
    /\ pc = "ask"
    /\ G_traj = [n \in Nodes |-> {}]
    /\ it = 1
    /\ last_time_active = 0
    /\ old_component = {}
    /\ social_trajectory = <<>>
    /\ IdleBinned
    /\ IdleCodec
    /\ IdleFlock

NextLoop ==
    \/ LoopAsk
    \/ LoopFire

SpecLoop == InitLoop /\ [][NextLoop]_vars

\* rates without waning and with recovery: a SIR epidemic
SIRRateTriples == {<<0, 3, 0>>, <<2, 3, 0>>}

\* the records a SIR run is followed for
MaxRunRecords == 8

\* the event loop of a SIR run fires a channel of positive rate
SIRFire ==
    /\ pc = "fire"
    /\ Len(time) < MaxRunRecords
    /\ \E event \in 0..2 :
          /\ rates_out[event + 1] > 0
          /\ MakeEventCall(event)
    /\ pc' = "ask"
    /\ UNCHANGED <<regVars, streamVars, G_traj, it, intervalVars, binnedVars,
                   codecVars, flockVars>>

\* a SIRS object with SIR rates in the event loop, on a static network
InitSIR ==
    /\ InitSIRSWith(SIRRateTriples)
    /\ InitRegistry
    /\ ec = [N |-> NumNodes, t0 |-> 0, tmax |-> 0, edges_initial |-> <<>>,
             t |-> <<>>, edges_in |-> <<>>, edges_out |-> <<>>]
    /\ node = 0
    /\ pc = "ask"
    /\ G_traj = [n \in Nodes |-> {}]
    /\ it = 1
    /\ last_time_active = 0
    /\ old_component = {}
    /\ social_trajectory = <<>>
    /\ IdleBinned
    /\ IdleCodec
    /\ IdleFlock

NextSIR ==
    \/ LoopAsk
    \/ SIRFire

\* a SIR run whose loop goes on as long as it can
SpecSIR == InitSIR /\ [][NextSIR]_vars /\ WF_vars(NextSIR)

\* epidemic events interleaved with network changes
Next ==
    \/ EpidemicEvent
    \/ RatesQuery
    \/ DiffUpdate
    \/ SnapshotUpdate
    \/ BadEvent

Spec == Init /\ [][Next]_vars

\* calls of get_group_integer on one registry
RegistryCall ==
    /\ \E component \in SUBSET Nodes : CallGetGroupInteger(component)
    /\ UNCHANGED <<sirsVars, streamVars, runVars, intervalVars, binnedVars,
                   codecVars, flockVars>>

InitCanonicalizer == IdleSIRS /\ InitRegistry /\ IdleRun /\ IdleBinned /\ IdleCodec
            /\ IdleFlock

SpecRegistry == InitCanonicalizer /\ [][RegistryCall]_vars

\* a call of social_trajectory_from_edge_changes(list_of_edge_changes, node)
InitInterval ==
    /\ IdleSIRS
    /\ InitRegistry
    /\ IdleBinned
    /\ IdleCodec
    /\ IdleFlock
    /\ \E es0 \in SUBSET AllEdges, tm \in {MaxTime - 1, MaxTime}, n \in Nodes :
         \E ds \in DiffSeqs(es0, MaxEvents) :
           \E ts \in IncSeqs(0, MaxTime, Len(ds)) :
              /\ ec = StreamOf(es0, ds, ts, tm)
              /\ node = n
    /\ pc = "start"
    /\ G_traj = [n \in Nodes |-> {}]
    /\ it = 1
    /\ last_time_active = 0
    /\ old_component = {}
    /\ social_trajectory = <<>>

IntervalBegin == IntervalStart /\ UNCHANGED <<sirsVars, binnedVars, codecVars, flockVars>>

IntervalStep == IntervalLoop /\ UNCHANGED <<sirsVars, binnedVars, codecVars, flockVars>>

NextInterval ==
    \/ IntervalBegin
    \/ IntervalStep

SpecInterval == InitInterval /\ [][NextInterval]_vars

\* the ways a caller may list the pairs of a list of edges
Listings == {"sorted", "reversed", "first_reversed"}

\* a list of sorted pairs as the caller lists it
Listed(edges, how) ==
    [k \in 1..Len(edges) |->
        IF how = "reversed" \/ (how = "first_reversed" /\ k = 1)
        THEN <<edges[k][2], edges[k][1]>>
        ELSE edges[k]]

\* a call of social_trajectory_from_edge_changes on a stream whose pairs are
\* listed in either endpoint order, the events at times 1, 2, ...
InitIntervalAnyOrder ==
    /\ IdleSIRS
    /\ InitRegistry
    /\ IdleBinned
    /\ IdleCodec
    /\ IdleFlock
    /\ \E es0 \in SUBSET AllEdges, n \in Nodes, how_in \in Listings,
          how_out \in Listings :
         \E ds \in DiffSeqs(es0, MaxEvents) :
            LET sorted == StreamOf(es0, ds, [k \in 1..Len(ds) |-> k], MaxTime)
            IN  /\ ec = [sorted EXCEPT
                           !.edges_initial = Listed(@, how_out),
                           !.edges_in = [k \in 1..Len(ds) |-> Listed(@[k], how_in)],
                           !.edges_out = [k \in 1..Len(ds) |-> Listed(@[k], how_out)]]
                /\ node = n
    /\ pc = "start"
    /\ G_traj = [n \in Nodes |-> {}]
    /\ it = 1
    /\ last_time_active = 0
    /\ old_component = {}
    /\ social_trajectory = <<>>

SpecIntervalAnyOrder == InitIntervalAnyOrder /\ [][NextInterval]_vars

\* a call of binned_social_trajectory_from_edge_changes(list_of_edge_changes,
\* node, dt, N_time_steps)
InitBinned ==
    /\ IdleSIRS
    /\ InitRegistry
    /\ IdleCodec
    /\ IdleFlock
    /\ \E es0 \in SUBSET AllEdges, tm \in {MaxTime - 1, MaxTime}, n \in Nodes :
         \E ds \in DiffSeqs(es0, MaxEvents) :
           \E ts \in IncSeqs(0, MaxTime, Len(ds)) :
              /\ ec = StreamOf(es0, ds, ts, tm)
              /\ node = n
    /\ \E width \in {-1, 0, 2}, steps \in {0, MaxTime} :
          /\ dt = [num |-> width, den |-> 1]
          /\ N_time_steps = steps
    /\ pc = "start"
    /\ G_traj = [n \in Nodes |-> {}]
    /\ it = 1
    /\ last_time_active = 0
    /\ old_component = {}
    /\ social_trajectory = <<>>
    /\ trajectory = <<>>
    /\ current_trajectory_bin = 0
    /\ old_bin_number = 0
    /\ current_group_integer = 1

BinnedBegin == BinnedStart /\ UNCHANGED <<sirsVars, intervalVars, codecVars, flockVars>>

BinnedStep == BinnedLoop /\ UNCHANGED <<sirsVars, intervalVars, codecVars, flockVars>>

NextBinned ==
    \/ BinnedBegin
    \/ BinnedStep

SpecBinned == InitBinned /\ [][NextBinned]_vars

\* a call of binned_social_trajectory_from_edge_changes with N_time_steps
\* bins on a stream whose pairs are listed in either endpoint order, the
\* events at times 1, 2, ...
InitBinnedAnyOrder ==
    /\ IdleSIRS
    /\ InitRegistry
    /\ IdleCodec
    /\ IdleFlock
    /\ \E es0 \in SUBSET AllEdges, n \in Nodes, how_in \in Listings,
          how_out \in Listings :
         \E ds \in DiffSeqs(es0, MaxEvents) :
            LET sorted == StreamOf(es0, ds, [k \in 1..Len(ds) |-> k], MaxTime)
            IN  /\ ec = [sorted EXCEPT
                           !.edges_initial = Listed(@, how_out),
                           !.edges_in = [k \in 1..Len(ds) |-> Listed(@[k], how_in)],
                           !.edges_out = [k \in 1..Len(ds) |-> Listed(@[k], how_out)]]
                /\ node = n
    /\ dt = [num |-> 0, den |-> 1]
    /\ N_time_steps = MaxTime
    /\ pc = "start"
    /\ G_traj = [n \in Nodes |-> {}]
    /\ it = 1
    /\ last_time_active = 0
    /\ old_component = {}
    /\ social_trajectory = <<>>
    /\ trajectory = <<>>
    /\ current_trajectory_bin = 0
    /\ old_bin_number = 0
    /\ current_group_integer = 1

SpecBinnedAnyOrder == InitBinnedAnyOrder /\ [][NextBinned]_vars

\* the graphs social_trajectory_from_edge_changes goes through on a stream:
\* the one of edges_initial, then after each event the one with the pairs of
\* edges_out, swapped to sorted, erased and those of edges_in then inserted
IntervalReplay(stream) ==
    ReplayFrom(GraphFromEdgelist(stream.edges_initial),
               [stream EXCEPT
                  !.edges_out = [k \in 1..Len(stream.edges_out) |-> SwapToSorted(@[k])],
                  !.edges_in = [k \in 1..Len(stream.edges_in) |-> SwapToSorted(@[k])]],
               1)

\* a call of convert_edge_changes, its result handed to convert_edge_lists
InitCodec ==
    /\ IdleSIRS
    /\ InitRegistry
    /\ IdleBinned
    /\ IdleCodec
    /\ IdleFlock
    /\ \E es0 \in SUBSET AllEdges, tm \in {MaxTime - 1, MaxTime} :
         \E ds \in DiffSeqs(es0, MaxEvents) :
           \E ts \in IncSeqs(0, MaxTime, Len(ds)) :
              ec = StreamOf(es0, ds, ts, tm)
    /\ node = 0
    /\ pc = "start"
    /\ G_traj = [n \in Nodes |-> {}]
    /\ it = 1
    /\ last_time_active = 0
    /\ old_component = {}
    /\ social_trajectory = <<>>

ToSnapshots ==
    ConvertEdgeChanges /\ UNCHANGED <<sirsVars, regVars, intervalVars, binnedVars, flockVars>>

ToDiffs ==
    ConvertEdgeLists /\ UNCHANGED <<sirsVars, regVars, intervalVars, binnedVars, flockVars>>

NextCodec ==
    \/ ToSnapshots
    \/ ToDiffs

SpecCodec == InitCodec /\ [][NextCodec]_vars

\* the edge_lists record of an initial edge set, toggles and times: one edge
\* list per edge set the toggles lead through
SnapshotsOf(es0, ds, ts, tm) ==
    LET along == EdgeSetsAlong(es0, ds)
    IN  [N |-> NumNodes, tmax |-> tm, t |-> ts,
         edges |-> [k \in 1..Len(along) |-> EdgeList(along[k])]]

\* a call of convert_edge_changes on a stream, or of convert_edge_lists on a
\* list of snapshots, tmax before the last time or not
InitCodecCalls ==
    /\ IdleSIRS
    /\ InitRegistry
    /\ IdleBinned
    /\ IdleFlock
    /\ \E es0 \in SUBSET AllEdges, tm \in {MaxTime - 1, MaxTime} :
         \E ds \in DiffSeqs(es0, MaxEvents) :
            \/ \E ts \in IncSeqs(0, MaxTime, Len(ds)) :
                  /\ ec = StreamOf(es0, ds, ts, tm)
                  /\ el = [N |-> NumNodes, tmax |-> 0, t |-> <<>>, edges |-> <<>>]
                  /\ pc = "start"
            \/ \E ts \in IncSeqs(0, MaxTime, Len(ds) + 1) :
                  /\ ec = NoStream
                  /\ el = SnapshotsOf(es0, ds, ts, tm)
                  /\ pc = "converted"
    /\ ec_back = NoStream
    /\ node = 0
    /\ G_traj = [n \in Nodes |-> {}]
    /\ it = 1
    /\ last_time_active = 0
    /\ old_component = {}
    /\ social_trajectory = <<>>

SpecCodecCalls == InitCodecCalls /\ [][NextCodec]_vars

\* the rate vectors of the per-node routines: one rate per node
NoRates == [n \in 1..NumNodes |-> 0]

SomeAlphas == [n \in 1..NumNodes |-> IF n = 2 THEN 0 ELSE n]

SomeBetas == [n \in 1..NumNodes |-> IF n = 1 THEN 0 ELSE 1]

\* the schedules handed in: one or two segments, the first breakpoint at 0 or 1
Breakpoints == {<<0>>, <<1>>, <<0, 2>>}

\* a call of one of the four routines
InitFlock ==
    /\ IdleSIRS
    /\ InitRegistry
    /\ IdleBinned
    /\ IdleCodec
    /\ ec = NoStream
    /\ node = 0
    /\ G_traj = [n \in Nodes |-> {}]
    /\ it = 1
    /\ last_time_active = 0
    /\ old_component = {}
    /\ social_trajectory = <<>>
    /\ pc = "start"
    /\ variant \in {"global", "for_each_node", "global_affinity", "for_each_node_affinity"}
    /\ E \in {EdgeList(es) : es \in SUBSET AllEdges}
    /\ t_run_total \in {1, MaxRunTime}
    /\ \E bps \in Breakpoints :
        /\ fw_tmax = bps[Len(bps)] + 2
        /\ \E alphas \in [1..Len(bps) -> IF PerNode THEN {NoRates, SomeAlphas}
                                                   ELSE {0, 1}] :
              reconnection_rate = [k \in 1..Len(bps) |-> <<bps[k], alphas[k]>>]
        /\ disconnection_rate \in
             [1..Len(bps) -> IF PerNode THEN {NoRates, SomeBetas} ELSE {0, 2}]
    /\ neighbor_affinity \in
         IF WithAffinity
         THEN {[n \in 1..NumNodes |-> Nodes \ {n - 1}],
               [n \in 1..NumNodes |-> {n % NumNodes}]}
         ELSE {<<>>}
    /\ fw_G = [n \in Nodes |-> {}]
    /\ fw_t = 0
    /\ fw_time = <<>>
    /\ fw_edges_in = <<>>
    /\ fw_edges_out = <<>>
    /\ total_rate = <<>>
    /\ single_rates = <<>>
    /\ last_event = -1
    /\ draw = NoDraw
    /\ result = NoStream

notFlockVars == <<sirsVars, regVars, streamVars, intervalVars, binnedVars, codecVars,
                  G_traj, it>>

FlockBegin == FlockStart /\ UNCHANGED notFlockVars

FlockStep == FlockLoop /\ UNCHANGED notFlockVars

FlockEnd == FlockReturn /\ UNCHANGED notFlockVars

NextFlock == FlockBegin \/ FlockStep \/ FlockEnd

SpecFlock == InitFlock /\ [][NextFlock]_vars

\* the routine runs on: nothing but its own steps can hold it up
SpecFlockRuns == SpecFlock /\ WF_vars(NextFlock)

FlockStepAnyChannel == FlockLoopAnyChannel /\ UNCHANGED notFlockVars

NextFlockAnyChannel == FlockBegin \/ FlockStepAnyChannel \/ FlockEnd

SpecFlockAnyChannel == InitFlock /\ [][NextFlockAnyChannel]_vars

(***************************************************************************)
(* Properties                                                              *)
(***************************************************************************)
\* what a rescan of the graph finds: the (infected, susceptible) adjacent pairs
SIPairs ==
    {p \in Nodes \X Nodes :
        /\ node_status[p[1]] = "I"
        /\ node_status[p[2]] = "S"
        /\ p[2] \in G[p[1]]}

\* C1: on a fixed graph, after any sequence of epidemic events from a
\* consistent state, the set of pairs in SI_edges is the set of (infected,
\* susceptible) adjacent pairs, which is what a rescan of the infected nodes'
\* neighbours gives.
C1_SIEdgesConsistentOnFixedGraph ==
    /\ Range(SI_edges) = SIPairs
    /\ Range(SI_edges) = Range(ScanInfected(infected, G, node_status))

\* an infection, a recovery and a waning have happened and pairs remain
C1_Witness ==
    /\ Len(time) = 4
    /\ last_call = "susceptible_event"
    /\ R[3] > R[2] /\ I[2] > I[1]
    /\ Len(SI_edges) > 0

\* C2 (as claimed): after every update_network(G, edges_in, edges_out, t),
\* with the pairs in either endpoint order, SI_edges is the set of (infected,
\* susceptible) adjacent pairs of the new graph.
C2_DiffUpdateKeepsSIEdgesConsistent ==
    last_call = "update_network_diff" => Range(SI_edges) = SIPairs

\* a step made by one of the three epidemic events
EventStep ==
    /\ last_call' \in {"infection_event", "recovery_event", "susceptible_event"}
    /\ Len(time') = Len(time) + 1

\* the nodes whose status a step changes
ChangedNodes == {n \in Nodes : node_status'[n] # node_status[n]}

\* the number of occurrences of n in a sequence
Count(s, n) == Cardinality({k \in 1..Len(s) : s[k] = n})

\* C9 (as claimed): every epidemic event changes the status of exactly one
\* node; an infection takes a susceptible node with an infected neighbour to I
\* and lengthens infected by one, a recovery takes I to R and moves the node
\* from infected to recovered, a waning takes R to S and removes the node from
\* recovered.
C9_EventsFollowTheStateMachine ==
    [][EventStep =>
        /\ Cardinality(ChangedNodes) = 1
        /\ \A n \in ChangedNodes :
            \/ /\ last_call' = "infection_event"
               /\ node_status[n] = "S" /\ node_status'[n] = "I"
               /\ \E i \in G[n] : node_status[i] = "I"
               /\ Len(infected') = Len(infected) + 1
               /\ Count(infected', n) = Count(infected, n) + 1
               /\ recovered' = recovered
            \/ /\ last_call' = "recovery_event"
               /\ node_status[n] = "I" /\ node_status'[n] = "R"
               /\ Len(infected') = Len(infected) - 1
               /\ Count(infected', n) = Count(infected, n) - 1
               /\ recovered' = Append(recovered, n)
            \/ /\ last_call' = "susceptible_event"
               /\ node_status[n] = "R" /\ node_status'[n] = "S"
               /\ Len(recovered') = Len(recovered) - 1
               /\ Count(recovered', n) = Count(recovered, n) - 1
               /\ infected' = infected]_vars

\* C10: get_rates_and_Lambda returns the three rates infection_rate *
\* |SI_edges|, recovery_rate * |infected|, becoming_susceptible_rate *
\* |recovered| in this order, Lambda is their sum, and the call changes no
\* epidemic state.
C10_RatesAndLambda ==
    [][last_call' = "get_rates_and_Lambda" =>
        /\ rates_out' = <<infection_rate * Len(SI_edges),
                          recovery_rate * Len(infected),
                          becoming_susceptible_rate * Len(recovered)>>
        /\ Len(rates_out') = 3
        /\ Lambda_out' = rates_out'[1] + rates_out'[2] + rates_out'[3]
        /\ UNCHANGED <<epiVars, G, mean_degree, R0, SI, I, R, time>>]_vars

\* rates were returned in a state where all three are positive and differ
C10_Witness ==
    /\ last_call = "get_rates_and_Lambda"
    /\ Len(time) > 1
    /\ rates_out[1] > 0 /\ rates_out[2] > 0 /\ rates_out[3] > 0
    /\ rates_out[2] # rates_out[3]
    /\ Lambda_out = rates_out[1] + rates_out[2] + rates_out[3]


\* C7: within one registry lifetime the same membership set gets the same
\* label on every call, whatever was registered in between, and a call never
\* removes an entry or changes a label: the registry only grows, by at most
\* one entry per call.
C7_LabelsAreStable ==
    /\ [](\A a, b \in 1..Len(reg_calls) :
            reg_calls[a][1] = reg_calls[b][1] => reg_calls[a][2] = reg_calls[b][2])
    /\ [][/\ \A h \in DOMAIN hash_to_int :
                h \in DOMAIN hash_to_int' /\ hash_to_int'[h] = hash_to_int[h]
          /\ Cardinality(DOMAIN hash_to_int') <= Cardinality(DOMAIN hash_to_int) + 1
          /\ Len(reg_calls') > Len(reg_calls) =>
                /\ this_hash' \in DOMAIN hash_to_int'
                /\ hash_to_int'[this_hash'] = group_int'
                /\ reg_calls'[Len(reg_calls')][2] = group_int']_vars

\* a set is labelled again after two other sets were registered in between
C7_Witness ==
    /\ Len(reg_calls) = 4
    /\ reg_calls[1][1] = reg_calls[4][1]
    /\ reg_calls[2][1] # reg_calls[1][1]
    /\ reg_calls[3][1] # reg_calls[1][1]
    /\ reg_calls[3][1] # reg_calls[2][1]
    /\ Cardinality(DOMAIN hash_to_int) = 3

\* the membership sets of the calls before the k-th
SetsBefore(k) == {reg_calls[a][1] : a \in 1..(k - 1)}

\* C8: an unseen membership set receives the registry size at the time of the
\* call (the smallest unused label), so after k distinct sets the labels are
\* exactly 0..k-1 and distinct sets have distinct labels.
C8_LabelsAreDense ==
    /\ \A k \in 1..Len(reg_calls) :
          reg_calls[k][1] \notin SetsBefore(k)
              => reg_calls[k][2] = Cardinality(SetsBefore(k))
    /\ {hash_to_int[h] : h \in DOMAIN hash_to_int}
          = 0..(Cardinality(SetsBefore(Len(reg_calls) + 1)) - 1)
    /\ \A a, b \in 1..Len(reg_calls) :
          reg_calls[a][1] # reg_calls[b][1] => reg_calls[a][2] # reg_calls[b][2]

\* three distinct sets were registered, with a repeated call in between
C8_Witness ==
    /\ Len(reg_calls) = 4
    /\ Cardinality(SetsBefore(5)) = 3
    /\ reg_calls[4][2] = 2
    /\ reg_calls[2][1] = reg_calls[1][1]

RECURSIVE ReplayGraphs(_, _, _)
\* the graphs of a stream: the initial one, then the one after each event
ReplayGraphs(es, stream, k) ==
    IF k > Len(stream.t) THEN <<GraphOf(es)>>
    ELSE <<GraphOf(es)>> \o
         ReplayGraphs((es \ Range(SwapToSorted(stream.edges_out[k])))
                          \cup Range(SwapToSorted(stream.edges_in[k])),
                      stream, k + 1)

\* the graphs a stream goes through
GraphsOfStream(stream) ==
    ReplayGraphs(Range(SwapToSorted(stream.edges_initial)), stream, 1)

\* the graphs the stream ec goes through
StreamGraphs == GraphsOfStream(ec)

\* the focal node is in a component of more than one node in every graph
AlwaysGrouped ==
    \A k \in 1..Len(StreamGraphs) :
        Cardinality(GetComponentOfNode(node, StreamGraphs[k])) > 1

\* the emitted intervals, each named by entry and position
EmittedIntervals ==
    {x \in (1..Len(social_trajectory)) \X (1..(MaxTime + 2)) :
        x[2] <= Len(social_trajectory[x[1]].time_pairs)}

IntervalOf(x) == social_trajectory[x[1]].time_pairs[x[2]]

\* the intervals tile [t0, tmax]: each lies inside, and every unit of time
\* between t0 and tmax is inside exactly one of them
IntervalsTile ==
    /\ \A x \in EmittedIntervals :
          ec.t0 <= IntervalOf(x)[1] /\ IntervalOf(x)[1] <= IntervalOf(x)[2]
              /\ IntervalOf(x)[2] <= ec.tmax
    /\ \A u \in ec.t0..(ec.tmax - 1) :
          Cardinality({x \in EmittedIntervals :
                          IntervalOf(x)[1] <= u /\ u < IntervalOf(x)[2]}) = 1

\* C3 (as claimed): for every stream, with zero or more events and tmax not
\* before the last event, in which the focal node's component always has more
\* than one node, the intervals returned by
\* social_trajectory_from_edge_changes cover [t0, tmax] exactly, without gap
\* or overlap.
C3_IntervalsCoverTheRun ==
    (pc = "done" /\ AlwaysGrouped) => IntervalsTile

\* the time the k-th graph of the stream begins and ends to hold (k from 1)
PeriodStart(k) == IF k = 1 THEN ec.t0 ELSE ec.t[k - 1]

PeriodEnd(k) == IF k > Len(ec.t) THEN ec.tmax ELSE ec.t[k]

\* the groups (components of more than one node) of the focal node at some
\* time in bin b, which spans [t0 + b*dt, t0 + (b+1)*dt), dt = (tmax-t0)/N_time_steps
GroupsDuringBin(b) ==
    {GetComponentOfNode(node, StreamGraphs[k]) : k \in
        {j \in 1..Len(StreamGraphs) :
            /\ Cardinality(GetComponentOfNode(node, StreamGraphs[j])) > 1
            /\ PeriodStart(j) < PeriodEnd(j)
            /\ (PeriodStart(j) - ec.t0) * N_time_steps < (b + 1) * (ec.tmax - ec.t0)
            /\ (PeriodEnd(j) - ec.t0) * N_time_steps > b * (ec.tmax - ec.t0)}}

\* the label the registry holds for a group, -1 if it holds none
LabelOf(component) ==
    IF HashGroup(GroupIndicator(component)) \in DOMAIN hash_to_int
    THEN hash_to_int[HashGroup(GroupIndicator(component))]
    ELSE -1

\* the stream has an event, and every event is after t0 and before tmax:
\* the routine reads and writes inside its vectors only
EventsInsideRun ==
    /\ ec.t # <<>>
    /\ \A k \in 1..Len(ec.t) : ec.t0 < ec.t[k] /\ ec.t[k] < ec.tmax

\* C4 (as claimed): when binned_social_trajectory_from_edge_changes returns,
\* the set of every bin b in 0..N_time_steps-1 is the set of the labels of the
\* groups the focal node was in at some time of the bin, also for a bin
\* without an event, for the part of a bin before its first event, and for
\* the bins after the last event. (Stated for streams with an event and
\* every event inside (t0, tmax).)
C4_BinsHoldTheGroupsOfTheirSpan ==
    (pc = "done" /\ trajectory # <<>> /\ EventsInsideRun) =>
        \A b \in 0..(N_time_steps - 1) :
            trajectory[b + 1] = {LabelOf(c) : c \in GroupsDuringBin(b)}

\* the graph of a stream at time tau: the one after its last event up to tau
StateAt(stream, tau) ==
    GraphsOfStream(stream)[1 + Cardinality({k \in 1..Len(stream.t) : stream.t[k] <= tau})]

\* C5: a valid edge_changes stream converted to edge_lists by
\* convert_edge_changes and back by convert_edge_lists replays to the same
\* adjacency state as the original at t0 and at every event time of the
\* original.
C5_RoundTripKeepsTheStates ==
    pc = "done" =>
        \A tau \in {ec.t0} \cup Range(ec.t) : StateAt(ec_back, tau) = StateAt(ec, tau)

\* a stream of two events, one of which both adds and removes an edge, has
\* made the round trip
C5_Witness ==
    /\ pc = "done"
    /\ Len(ec.t) >= 2
    /\ \E k \in 1..Len(ec.t) : ec.edges_in[k] # <<>> /\ ec.edges_out[k] # <<>>
    /\ ec_back.t = ec.t

\* the member functions that end in update_observables(t)
RecordingCalls ==
    {"infection_event", "recovery_event", "susceptible_event",
     "update_network", "update_network_diff"}

\* C11: R0, SI, I, R and time always have the same length, the last record
\* holds |SI_edges|, |infected| and |recovered| as they are; every successful
\* make_event and every update_network lengthens the sequences by exactly one
\* record, and no other call lengthens them.
C11_OneRecordPerEventAndUpdate ==
    /\ [](/\ Len(R0) = Len(time) /\ Len(SI) = Len(time)
          /\ Len(I) = Len(time) /\ Len(R) = Len(time)
          /\ time # <<>> =>
                /\ SI[Len(SI)] = Len(SI_edges)
                /\ I[Len(I)] = Len(infected)
                /\ R[Len(R)] = Len(recovered))
    /\ [][IF last_call' \in RecordingCalls /\ thrown' = "none"
          THEN /\ Len(time') = Len(time) + 1
               /\ \A k \in 1..Len(time) :
                     /\ R0'[k] = R0[k] /\ SI'[k] = SI[k] /\ I'[k] = I[k]
                     /\ R'[k] = R[k] /\ time'[k] = time[k]
          ELSE UNCHANGED <<R0, SI, I, R, time>>]_vars

\* three records, the last of an epidemic event that changed the number of
\* infected
C11_Witness ==
    /\ Len(time) >= 3
    /\ thrown = "none"
    /\ last_call \in {"infection_event", "recovery_event"}
    /\ I[Len(I)] # I[Len(I) - 1]

\* C12: make_event with an event index of 3 or more throws, and changes no
\* node status, no infected or recovered entry, no SI_edges entry and appends
\* no record.
C12_BadEventThrowsAndChangesNothing ==
    [][last_call' = "make_event" =>
        /\ thrown' = "length_error"
        /\ UNCHANGED <<epiVars, R0, SI, I, R, time>>]_vars

\* the throw happened after some events
C12_Witness ==
    /\ thrown = "length_error"
    /\ last_call = "make_event"
    /\ Len(time) >= 2

\* a step of an event routine entered with its collection empty
EmptySelectionStep ==
    \/ last_call' = "infection_event" /\ SI_edges = <<>>
    \/ last_call' = "recovery_event" /\ infected = <<>>
    \/ last_call' = "susceptible_event" /\ recovered = <<>>

\* C13 (as claimed): an infection event requested while SI_edges is empty, a
\* recovery event while infected is empty, or a waning event while recovered
\* is empty is reported as a fatal error instead of selecting an element, and
\* leaves the epidemic state and the observables unchanged.
C13_EmptySelectionIsAnError ==
    [][EmptySelectionStep =>
        /\ thrown' \notin {"none", "fault"}
        /\ UNCHANGED <<epiVars, R0, SI, I, R, time>>]_vars

\* the object was constructed with all three rates zero
AllRatesZero ==
    infection_rate = 0 /\ recovery_rate = 0 /\ becoming_susceptible_rate = 0

\* C14: with infection, recovery and waning rate all zero, on any network and
\* any initial statuses, the total rate is zero in every reachable state, the
\* event loop learns on its first draw that there is no further event, no
\* epidemic event fires, and the observable sequences hold the initial record
\* only.
C14_ZeroRatesEndTheRunAtOnce ==
    AllRatesZero =>
        /\ infection_rate * Len(SI_edges) + recovery_rate * Len(infected)
               + becoming_susceptible_rate * Len(recovered) = 0
        /\ Lambda_out = 0
        /\ pc \in {"ask", "ended"}
        /\ last_call = "get_rates_and_Lambda" => pc = "ended"
        /\ last_call \in {"update_network", "get_rates_and_Lambda"}
        /\ Len(time) = 1 /\ Len(R0) = 1 /\ Len(SI) = 1 /\ Len(I) = 1 /\ Len(R) = 1

\* the run ended at zero rates although there are S-I edges and recovered nodes
C14_Witness ==
    /\ AllRatesZero
    /\ pc = "ended"
    /\ SI_edges # <<>>
    /\ recovered # <<>>


\* the rates handed in for segment k, one per channel
InputRates(k) ==
    IF PerNode THEN reconnection_rate[k][2] \o disconnection_rate[k]
    ELSE <<reconnection_rate[k][2], disconnection_rate[k]>>

\* C19: in all four routines every channel rate given to the scheduler is the
\* rate handed in times N, and the total rate of a segment is the sum of those
\* scaled channel rates
C19_RatesAreScaledByN ==
    pc # "start" =>
        /\ Len(single_rates) = Len(reconnection_rate)
        /\ Len(total_rate) = Len(reconnection_rate)
        /\ \A k \in 1..Len(reconnection_rate) :
            LET scaled == [c \in 1..Len(InputRates(k)) |-> InputRates(k)[c] * NumNodes]
            IN  /\ single_rates[k][2] = scaled
                /\ total_rate[k][2] = SumSeq(scaled)

\* what the rewiring of the last pass handed back, from the graph before it
LastEdgeChange ==
    IF IsReconnection(draw'.channel)
    THEN Reconnect(fw_G, draw'.node, draw'.partner)
    ELSE Disconnect(fw_G, draw'.node)

\* the list of times and the two lists of edges have one entry per event, and
\* no entry holds two empty lists
NoEmptyEntries(ts, ins, outs) ==
    /\ Len(ins) = Len(ts)
    /\ Len(outs) = Len(ts)
    /\ \A i \in 1..Len(ts) : ~(ins[i] = <<>> /\ outs[i] = <<>>)

\* C15: an event that removes no edge and adds no edge is consumed (time goes
\* on) but appends nothing, so in the stream built and returned t, edges_in and
\* edges_out have the same length and no index holds two empty lists
C15_NoOpEventsLeaveNoEntry ==
    /\ [](NoEmptyEntries(fw_time, fw_edges_in, fw_edges_out)
          /\ NoEmptyEntries(result.t, result.edges_in, result.edges_out)
          /\ (pc = "done" => /\ result.t = fw_time
                             /\ result.edges_in = fw_edges_in
                             /\ result.edges_out = fw_edges_out))
    /\ [][(pc = "loop" /\ draw'.applied
           /\ LastEdgeChange.first = <<>> /\ LastEdgeChange.second = <<>>)
          => /\ fw_t' > fw_t
             /\ UNCHANGED <<fw_time, fw_edges_in, fw_edges_out>>]_vars

\* a run that has recorded two events and then applied a later one, at time
\* fw_t, that changed nothing and left no entry
C15_Witness ==
    /\ pc = "loop"
    /\ draw.applied
    /\ Len(fw_time) >= 2
    /\ fw_time[Len(fw_time)] < fw_t

\* strictly increasing times, all of them strictly between 0 and tmax
TimesInside(ts, tmax) ==
    /\ \A i \in 1..Len(ts) : 0 < ts[i] /\ ts[i] < tmax
    /\ \A i \in 1..(Len(ts) - 1) : ts[i] < ts[i + 1]

\* C16: in the stream every routine builds and returns, t is strictly
\* increasing and every time lies strictly between t0 = 0 and tmax =
\* t_run_total; an event drawn at a time >= t_run_total is neither applied to
\* the graph nor recorded
C16_EventTimesLieInsideTheRun ==
    /\ [](/\ TimesInside(fw_time, t_run_total)
          /\ (pc = "done" => /\ result.t0 = 0
                             /\ result.tmax = t_run_total
                             /\ result.t = fw_time
                             /\ TimesInside(result.t, result.tmax)))
    /\ [][(pc = "loop" /\ pc' = "loop" /\ fw_t' >= t_run_total)
          => /\ ~draw'.applied
             /\ UNCHANGED <<fw_G, fw_time, fw_edges_in, fw_edges_out>>]_vars

\* a run that returned three events after a last draw, on a graph it could
\* have changed, fell on the end of the run
C16_Witness ==
    /\ pc = "done"
    /\ Len(result.t) >= 3
    /\ ~draw.applied
    /\ draw.tau > 0
    /\ fw_t >= t_run_total
    /\ \E n \in Nodes : fw_G[n] # {}

\* the stream the routine has built so far
StreamSoFar ==
    [N |-> NumNodes, t0 |-> 0, tmax |-> t_run_total, edges_initial |-> E,
     t |-> fw_time, edges_in |-> fw_edges_in, edges_out |-> fw_edges_out]

\* the pairs of a list as sorted pairs
SortedPairs(edges) ==
    {<<IF e[1] < e[2] THEN e[1] ELSE e[2], IF e[1] < e[2] THEN e[2] ELSE e[1]>> :
        e \in Range(edges)}

\* replaying a stream from edges_initial goes through simple graphs only, every
\* entry removes present edges and adds absent ones, the two being disjoint,
\* and the replay ends in graph g
ReplaysTo(stream, g) ==
    LET gs == ReplayFrom(GraphFromEdgelist(stream.edges_initial), stream, 1)
    IN  /\ Len(gs) = Len(stream.t) + 1
        /\ gs[Len(gs)] = g
        /\ \A i \in 1..Len(gs) : gs[i] \in Graphs
        /\ \A i \in 1..Len(stream.t) :
            /\ SortedPairs(stream.edges_out[i]) \subseteq EdgesOf(gs[i])
            /\ SortedPairs(stream.edges_in[i]) \cap EdgesOf(gs[i]) = {}
            /\ SortedPairs(stream.edges_in[i]) \cap SortedPairs(stream.edges_out[i]) = {}
            /\ EdgesOf(gs[i + 1]) =
                 (EdgesOf(gs[i]) \ SortedPairs(stream.edges_out[i]))
                    \cup SortedPairs(stream.edges_in[i])

\* C17: applying edges_out[i] and edges_in[i] in order to edges_initial gives
\* the routine's graph after each recorded event; every graph on the way is
\* symmetric and free of self-loops, edges_out[i] holds only edges present
\* before event i, edges_in[i] only edges absent before it, and the two are
\* disjoint
C17_ReplayGivesTheGraphOfTheRun ==
    /\ pc \in {"loop", "length_error"} => ReplaysTo(StreamSoFar, fw_G)
    /\ pc = "done" => ReplaysTo(result, fw_G)

\* a returned stream of three events, one of which removes edges and adds one
C17_Witness ==
    /\ pc = "done"
    /\ Len(result.t) >= 3
    /\ \E i \in 1..Len(result.t) :
         Len(result.edges_out[i]) >= 1 /\ Len(result.edges_in[i]) = 1

\* a pass of the loop that applied an event
AppliedEvent ==
    pc = "loop" /\ pc' = "loop" /\ fw_t' > fw_t /\ fw_t' < t_run_total

\* the channel belongs to the first rate, the reconnection rate
FirstRateChannel(c) == IF PerNode THEN c \in 1..NumNodes ELSE c = 1

\* the channel belongs to the second rate, the disconnection rate
SecondRateChannel(c) ==
    IF PerNode THEN c \in (NumNodes + 1)..(2 * NumNodes) ELSE c = 2

\* C18: an event of the first rate channel (event 1, channels 1..N) is a
\* reconnection: afterwards the selected node has exactly one edge, to the
\* drawn partner; an event of the second (event 2, channels N+1..2N) is a
\* disconnection: afterwards the selected node has no edge; the adjacency of
\* every pair without the selected node stays as it was
C18_ReconnectionAndDisconnection ==
    [][AppliedEvent =>
        LET c == last_event'
            n == draw'.node
            j == draw'.partner
        IN  /\ draw'.applied /\ draw'.channel = c
            /\ FirstRateChannel(c) \/ SecondRateChannel(c)
            /\ PerNode /\ FirstRateChannel(c) => n = c - 1
            /\ PerNode /\ SecondRateChannel(c) => n = c - NumNodes - 1
            /\ FirstRateChannel(c) =>
                 /\ j \in Nodes \ {n}
                 /\ WithAffinity => j \in neighbor_affinity[n + 1]
                 /\ fw_G'[n] = {j}
                 /\ n \in fw_G'[j]
            /\ SecondRateChannel(c) =>
                 /\ fw_G'[n] = {}
                 /\ \A k \in Nodes : n \notin fw_G'[k]
            /\ \A a, b \in Nodes \ {n} : (b \in fw_G'[a]) <=> (b \in fw_G[a])]_vars

\* a per-node run in which a reconnection dropped an edge for a new one and a
\* later disconnection, the last event applied, took two edges from its node
C18_Witness ==
    /\ pc = "loop"
    /\ PerNode
    /\ draw.applied
    /\ SecondRateChannel(draw.channel)
    /\ Len(fw_time) >= 2
    /\ fw_time[Len(fw_time)] = fw_t
    /\ Len(fw_edges_out[Len(fw_time)]) = 2
    /\ \E i \in 1..(Len(fw_time) - 1) :
         Len(fw_edges_in[i]) = 1 /\ Len(fw_edges_out[i]) >= 1

\* the channel is outside the valid range of the routine
OutOfRange(c) == IF PerNode THEN c = 0 \/ c > 2 * NumNodes ELSE c \notin {1, 2}

\* C20: whenever the scheduler selects a channel outside the valid range the
\* run aborts with a fatal error: the event is not silently ignored, the graph
\* is not changed for it and no stream is returned
C20_OutOfRangeChannelAborts ==
    /\ [](pc = "length_error" => result = NoStream)
    /\ [][(pc = "loop" /\ fw_t' # fw_t /\ OutOfRange(last_event'))
          => /\ pc' = "length_error"
             /\ UNCHANGED <<fw_G, fw_time, fw_edges_in, fw_edges_out, result>>]_vars

C22_ReturnedRecord ==
    /\ [](pc = "done" =>
            result = [N |-> NumNodes, t0 |-> 0, tmax |-> t_run_total,
                      edges_initial |-> E, t |-> fw_time,
                      edges_in |-> fw_edges_in, edges_out |-> fw_edges_out])
    /\ [][/\ E' = E
          /\ pc = "loop" =>
               /\ Len(fw_time') >= Len(fw_time)
               /\ \A i \in 1..Len(fw_time) :
                    /\ fw_time'[i] = fw_time[i]
                    /\ fw_edges_in'[i] = fw_edges_in[i]
                    /\ fw_edges_out'[i] = fw_edges_out[i]]_vars

\* a returned run of two events whose horizon is not t_run_total and whose
\* graph is no longer the one of E
C22_Witness ==
    /\ pc = "done"
    /\ fw_tmax # t_run_total
    /\ E # <<>>
    /\ Len(result.t) >= 2
    /\ fw_G # GraphFromEdgelist(E)

RECURSIVE TotalIntervals(_)
\* the number of intervals in all entries of a trajectory
TotalIntervals(st) ==
    IF st = <<>> THEN 0 ELSE Len(Head(st).time_pairs) + TotalIntervals(Tail(st))

\* going from trajectory st to st2 the interval pair was appended to the entry
\* of the label of component
AppendedTo(st, st2, component, pair) ==
    \E k \in 1..Len(st2) :
        /\ st2[k].hash = HashGroup(GroupIndicator(component))
        /\ st2[k].size = Cardinality(component)
        /\ \E p \in 1..Len(st2[k].time_pairs) :
            /\ st2[k].time_pairs[p] = pair
            /\ (k <= Len(st) => p > Len(st[k].time_pairs))

\* C23: at each event at a time t > t0 at which the focal node's component
\* differs from the one before and the one before has more than one node,
\* exactly one interval (time of the last change of component or t0, t) is
\* appended to the entry of the label of the component before; when the stream
\* is exhausted and the component has more than one node, the last interval is
\* closed at tmax
C23_IntervalClosingRule ==
    /\ []((pc = "done" /\ Cardinality(GetComponentOfNode(node, G_traj)) > 1) =>
            \E k \in 1..Len(social_trajectory) :
                /\ social_trajectory[k].hash =
                     HashGroup(GroupIndicator(GetComponentOfNode(node, G_traj)))
                /\ social_trajectory[k].time_pairs # <<>>
                /\ social_trajectory[k].time_pairs[
                       Len(social_trajectory[k].time_pairs)][2] = ec.tmax)
    /\ [][pc = "loop" =>
            LET t == ec.t[it]
                closes == /\ Cardinality(old_component) > 1
                          /\ old_component' # old_component
                          /\ t > ec.t0
                last == it = Len(ec.t) /\ Cardinality(old_component') > 1
                since == IF old_component' # old_component THEN t
                         ELSE last_time_active
            IN  /\ old_component' = GetComponentOfNode(node, G_traj')
                /\ TotalIntervals(social_trajectory') =
                     TotalIntervals(social_trajectory)
                        + (IF closes THEN 1 ELSE 0) + (IF last THEN 1 ELSE 0)
                /\ closes => AppendedTo(social_trajectory, social_trajectory',
                                        old_component, <<last_time_active, t>>)
                /\ last => AppendedTo(social_trajectory, social_trajectory',
                                      old_component', <<since, ec.tmax>>)]_vars

\* the call is made on a stream whose tmax is smaller than its last time
TmaxBeforeLastTime ==
    pc = "start" /\ ec.t # <<>> /\ ec.tmax < ec.t[Len(ec.t)]

\* C24: each trajectory routine, in interval and in binned mode, fails with
\* the error about the order of tmax and the last time whenever tmax is
\* smaller than the last time of the stream; it returns no trajectory then and
\* leaves the stream as it was
C24_TmaxBeforeLastTimeIsRejected ==
    [][TmaxBeforeLastTime => (pc' = "domain_error" /\ ec' = ec)]_vars

\* exactly one of dt and N_time_steps is positive, and a positive dt divides
\* tmax - t0 evenly
ValidBinning ==
    /\ (dt.num > 0) # (N_time_steps > 0)
    /\ ~(dt.num < 0 /\ N_time_steps = 0)
    /\ dt.num > 0 => ((ec.tmax - ec.t0) * dt.den) % dt.num = 0

\* C25: a binned call succeeds only if exactly one of dt and N_time_steps is
\* positive and a dt that is given divides tmax - t0 evenly; every other
\* combination (both positive, both zero, none positive with a negative dt, a
\* dt that does not divide the span) fails with the error about dt and
\* N_time_steps
C25_BinningIsValidated ==
    [][(pc = "start" /\ ~ValidBinning) => pc' = "domain_error_dt_N_time_steps"]_vars

\* the binned call is rejected, for dt and N_time_steps or for tmax
BinnedCallRejected ==
    pc = "start" /\ pc' \in {"domain_error", "domain_error_dt_N_time_steps"}

\* C26: a binned call that is rejected is rejected before the graph is built
\* from the stream and before anything is written to the registry of groups
\* or to a bin of the trajectory
C26_RejectedBeforeAnyState ==
    [][BinnedCallRejected =>
          /\ G_traj' = G_traj
          /\ hash_to_int' = hash_to_int
          /\ reg_calls' = reg_calls
          /\ trajectory' = trajectory]_vars

\* C27: convert_edge_changes and convert_edge_lists both reject an input whose
\* tmax lies before its last time with the error about their order, before
\* anything is replayed or converted and without any output
C27_ConvertersRejectTmaxBeforeLastTime ==
    /\ [][(pc = "start" /\ ec.t # <<>> /\ ec.tmax < ec.t[Len(ec.t)]) =>
            (pc' = "domain_error" /\ UNCHANGED <<ec, el, ec_back, G_traj>>)]_vars
    /\ [][(pc = "converted" /\ el.t # <<>> /\ el.tmax < el.t[Len(el.t)]) =>
            (pc' = "domain_error" /\ UNCHANGED <<ec, el, ec_back, G_traj>>)]_vars

\* a list of three snapshots with tmax before its last time, rejected
C27_Witness ==
    /\ pc = "domain_error"
    /\ Len(el.t) = 3
    /\ el.tmax < el.t[3]
    /\ ec_back = NoStream

\* the entries are those of pairwise distinct sets of nodes, each with the
\* number of nodes of its set as size and its intervals in the order of time
EntriesAreGroups(st) ==
    /\ \A k, l \in 1..Len(st) : st[k].hash = st[l].hash => k = l
    /\ \A k \in 1..Len(st) :
        /\ \E component \in SUBSET Nodes :
              /\ st[k].hash = HashGroup(GroupIndicator(component))
              /\ st[k].size = Cardinality(component)
        /\ \A p \in 1..Len(st[k].time_pairs) :
              st[k].time_pairs[p][1] <= st[k].time_pairs[p][2]
        /\ \A p \in 1..(Len(st[k].time_pairs) - 1) :
              /\ st[k].time_pairs[p][2] <= st[k].time_pairs[p + 1][1]
              /\ st[k].time_pairs[p][1] < st[k].time_pairs[p + 1][1]

\* C28: when the focal node comes back to a set of nodes it was in before, the
\* interval goes to the entry that set already has, not to a new one: the
\* entries returned have pairwise distinct sets, the size of each entry is the
\* number of nodes of its set, and the intervals of an entry are in increasing
\* order of time
C28_OneEntryPerGroup ==
    /\ [](pc \in {"loop", "done"} => EntriesAreGroups(social_trajectory))
    /\ [][pc = "loop" =>
            /\ Len(social_trajectory') >= Len(social_trajectory)
            /\ \A k \in 1..Len(social_trajectory) :
                 /\ social_trajectory'[k].hash = social_trajectory[k].hash
                 /\ social_trajectory'[k].size = social_trajectory[k].size
                 /\ Len(social_trajectory'[k].time_pairs)
                       >= Len(social_trajectory[k].time_pairs)
                 /\ \A p \in 1..Len(social_trajectory[k].time_pairs) :
                       social_trajectory'[k].time_pairs[p]
                          = social_trajectory[k].time_pairs[p]]_vars

\* a run in which the focal node left a group and came back to it: the entry
\* of that group holds two intervals, another entry one in between
C28_Witness ==
    /\ pc = "done"
    /\ Len(social_trajectory) = 2
    /\ Len(social_trajectory[1].time_pairs) = 2
    /\ Len(social_trajectory[2].time_pairs) = 1

\* C29: in the routines with one rate per node, channel n + 1, whose rate is
\* node n's reconnection rate, reconnects node n, and channel N + n + 1, whose
\* rate is node n's disconnection rate, disconnects node n, for every node n
\* in 0..N-1; the node decoded is always one of 0..N-1
C29_ChannelsDecodeToTheirNode ==
    /\ []((PerNode /\ pc = "loop") =>
            \A n \in 0..(NumNodes - 1) :
                /\ SelectedNodes(n + 1) = {n}
                /\ IsReconnection(n + 1)
                /\ SelectedNodes(NumNodes + n + 1) = {n}
                /\ ~IsReconnection(NumNodes + n + 1)
                /\ ValidChannel(n + 1) /\ ValidChannel(NumNodes + n + 1)
                /\ \A k \in 1..Len(single_rates) :
                     /\ Len(single_rates[k][2]) = 2 * NumNodes
                     /\ single_rates[k][2][n + 1] = reconnection_rate[k][2][n + 1]
                     /\ single_rates[k][2][NumNodes + n + 1]
                           = disconnection_rate[k][n + 1])
    /\ [][(PerNode /\ AppliedEvent) =>
            LET c == last_event'
                n == draw'.node
            IN  /\ n \in 0..(NumNodes - 1)
                /\ c = n + 1 \/ c = NumNodes + n + 1
                /\ c = n + 1 => fw_G'[n] = {draw'.partner}
                /\ c = NumNodes + n + 1 => fw_G'[n] = {}]_vars

\* a per-node run whose last channel, the disconnection of node N - 1, has
\* just taken an edge from that node, after a reconnection by channel 1
C29_Witness ==
    /\ PerNode
    /\ pc = "loop"
    /\ draw.applied
    /\ draw.channel = 2 * NumNodes
    /\ draw.node = NumNodes - 1
    /\ Len(fw_time) >= 2
    /\ fw_time[Len(fw_time)] = fw_t
    /\ fw_edges_out[Len(fw_time)] # <<>>
    /\ \E i \in 1..(Len(fw_time) - 1) : <<0, 1>> \in Range(fw_edges_in[i])

\* a binned call that got past its checks: the stream has an event, tmax is
\* not before the last event, there is at least one bin of positive width
BinnedCallAccepted ==
    /\ pc \in {"loop", "done", "fault"}
    /\ ec.t # <<>>
    /\ ec.tmax >= ec.t[Len(ec.t)]
    /\ N_time_steps > 0
    /\ dt.num > 0

\* C30 (as claimed): for a stream with strictly increasing event times in
\* [t0, tmax], an event exactly at tmax included, the bin cursor of
\* binned_social_trajectory_from_edge_changes always points at one of the
\* N_time_steps bins, no label is written outside the sequence, and the
\* sequence has exactly N_time_steps entries.
C30_CursorStaysInsideTheBins ==
    BinnedCallAccepted =>
        /\ Len(trajectory) = N_time_steps
        /\ current_trajectory_bin < N_time_steps
        /\ pc # "fault"

\* the nodes of a status
WithStatus(s) == {n \in Nodes : node_status[n] = s}

\* C31: after any sequence of epidemic events and network updates the
\* infected collection holds exactly the nodes of status I and the recovered
\* collection exactly the nodes of status R, each node at most once, so that
\* |S| + |infected| + |recovered| = N.
C31_CollectionsAgreeWithStatus ==
    /\ Range(infected) = WithStatus("I")
    /\ Len(infected) = Cardinality(WithStatus("I"))
    /\ Range(recovered) = WithStatus("R")
    /\ Len(recovered) = Cardinality(WithStatus("R"))
    /\ Cardinality(WithStatus("S")) + Len(infected) + Len(recovered) = NumNodes

\* a node has gone from R back to S after a change of the network, with
\* nodes left in both collections
C31_Witness ==
    /\ last_call = "susceptible_event"
    /\ Len(time) >= 4
    /\ infected # <<>>
    /\ recovered # <<>>
    /\ WithStatus("S") # {}
    /\ G # GraphOf({})

\* C32 (as claimed): after any sequence of epidemic events and diff-based
\* network updates whose edges_in were absent before the update, no ordered
\* pair occurs twice in SI_edges, and the length of SI_edges, the factor of
\* the infection rate, is the number of distinct adjacent (infected,
\* susceptible) pairs.
C32_SIEdgesHoldNoDuplicates ==
    /\ Len(SI_edges) = Cardinality(Range(SI_edges))
    /\ Len(SI_edges) = Cardinality(SIPairs)

\* C33: both update_network overloads leave node_status, infected and
\* recovered as they are (what they change is SI_edges, mean_degree, the
\* graph and the observable sequences), and the three epidemic events never
\* change the adjacency sets of the graph or mean_degree.
C33_FrameOfUpdatesAndEvents ==
    [][/\ last_call' \in {"update_network", "update_network_diff"} =>
            UNCHANGED <<node_status, infected, recovered, infection_rate,
                        recovery_rate, becoming_susceptible_rate, rates>>
       /\ last_call' \in {"infection_event", "recovery_event", "susceptible_event"} =>
            UNCHANGED <<G, mean_degree>>]_vars

\* an update that changed the mean degree and the number of SI pairs of a
\* population with infected and recovered nodes, followed by an epidemic
\* event that changed the number of infected
C33_Witness ==
    /\ Len(time) >= 3
    /\ last_call \in {"infection_event", "recovery_event"}
    /\ R0[2] # R0[1]
    /\ SI[2] # SI[1]
    /\ I[2] = I[1] /\ I[1] > 0
    /\ R[2] = R[1] /\ R[1] > 0
    /\ I[3] # I[2]

\* C34: with becoming_susceptible_rate = 0 and recovery_rate > 0 on a static
\* network, the loop firing only channels of positive rate, every run reaches
\* after at most 2N epidemic events a state where infected and SI_edges are
\* empty and the total rate is zero; once infected is empty no node becomes
\* infected again.
C34_SIREpidemicsDieOut ==
    /\ <>(pc = "ended")
    /\ [](pc = "ended" =>
            /\ infected = <<>>
            /\ SI_edges = <<>>
            /\ Lambda_out = 0
            /\ rates_out = <<0, 0, 0>>)
    /\ [](Len(time) - 1 <= 2 * NumNodes)
    /\ [][infected = <<>> =>
            /\ infected' = <<>>
            /\ node_status' = node_status]_vars

\* a run that began with one infected node among susceptible ones has ended
\* after 2N - 1 events: every other node was infected, and all have recovered
C34_Witness ==
    /\ pc = "ended"
    /\ Len(time) - 1 = 2 * NumNodes - 1
    /\ \A n \in Nodes : node_status[n] = "R"
    /\ I[1] = 1
    /\ R[1] = 0

IsolatedPeriods ==
    LET graphs == StreamGraphs
    IN  {k \in 1..Len(graphs) : graphs[k][node] = {}}

Undirected(edges) == {{e[1], e[2]} : e \in Range(edges)}

\* list after is list before, but for pairs swapped to first <= second
SwappedAtMost(before, after) ==
    /\ Len(after) = Len(before)
    /\ \A k \in 1..Len(before) :
          \/ after[k] = before[k]
          \/ /\ after[k] = <<before[k][2], before[k][1]>>
             /\ after[k][1] <= after[k][2]

\* C37: social_trajectory_from_edge_changes leaves N, t0, tmax, t and
\* edges_initial of the stream it is given as they are, and changes edges_in
\* and edges_out at most by swapping the two endpoints of a pair so that
\* first <= second: the undirected edge set of every event is preserved.
C37_InputChangesOnlyBySwaps ==
    [][/\ ec'.N = ec.N /\ ec'.t0 = ec.t0 /\ ec'.tmax = ec.tmax /\ ec'.t = ec.t
       /\ ec'.edges_initial = ec.edges_initial
       /\ Len(ec'.edges_in) = Len(ec.edges_in)
       /\ Len(ec'.edges_out) = Len(ec.edges_out)
       /\ \A k \in 1..Len(ec.edges_in) :
             /\ SwappedAtMost(ec.edges_in[k], ec'.edges_in[k])
             /\ Undirected(ec'.edges_in[k]) = Undirected(ec.edges_in[k])
       /\ \A k \in 1..Len(ec.edges_out) :
             /\ SwappedAtMost(ec.edges_out[k], ec'.edges_out[k])
             /\ Undirected(ec'.edges_out[k]) = Undirected(ec.edges_out[k])]_vars

\* the routine has returned from a stream that listed a pair of its second
\* event as (larger, smaller): the pair is now (smaller, larger), while
\* edges_initial still lists a pair as (larger, smaller)
C37_Witness ==
    /\ pc = "done"
    /\ Len(ec.t) = 2
    /\ ec.edges_in[2] # <<>>
    /\ \A k \in 1..2 : \A e \in Range(ec.edges_in[k]) \cup Range(ec.edges_out[k]) :
          e[1] <= e[2]
    /\ \E e \in Range(ec.edges_initial) : e[1] > e[2]
    /\ ec.edges_out[1] # <<>>

\* j is a neighbour of i exactly when i is a neighbour of j
Symmetric(g) == \A i, j \in Nodes : j \in g[i] <=> i \in g[j]

\* the edges of edges_in[k] and edges_out[k] of the stream are disjoint
DisjointDiffs ==
    \A k \in 1..Len(ec.t) :
        Undirected(ec.edges_in[k]) \cap Undirected(ec.edges_out[k]) = {}

\* C38: for a diff stream whose edges_in[i] and edges_out[i] are disjoint,
\* the graph binned mode replays (additions before removals) and the graph
\* interval mode replays (removals before additions) are the same after every
\* event and stay symmetric, so that the focal node has the same component in
\* both at every event.
C38_BothReplaysAgree ==
    (pc \in {"loop", "done"} /\ DisjointDiffs) =>
        LET g == IntervalReplay(ec)[it]
        IN  /\ G_traj = g
            /\ Symmetric(G_traj)
            /\ Symmetric(g)
            /\ GetComponentOfNode(node, G_traj) = GetComponentOfNode(node, g)

\* binned mode has replayed two events, the first with both additions and
\* removals, the pairs listed as (larger, smaller), and the graph has changed
C38_Witness ==
    /\ pc = "done"
    /\ it = 3
    /\ ec.edges_in[1] # <<>> /\ ec.edges_out[1] # <<>>
    /\ \E e \in Range(ec.edges_in[1]) : e[1] > e[2]
    /\ \E e \in Range(ec.edges_out[1]) : e[1] > e[2]
    /\ G_traj # GraphFromEdgelist(ec.edges_initial)
    /\ Cardinality(GetComponentOfNode(node, G_traj)) > 1
====
